---- MODULE Spec2Model ----
(***************************************************************************)
(* Model of the reagenz behaviour-tree engine: the identifier space, the   *)
(* IR evaluator with its evaluation and discovery contexts, and the shared *)
(* memoization cache.                                                      *)
(***************************************************************************)
EXTENDS Integers, Sequences, FiniteSets, TLC

(* ---------------------------------------------------------------------- *)
(* Bounds                                                                  *)
(* ---------------------------------------------------------------------- *)
MaxVal == 2
MaxNums == 2
MaxSink == 2
MaxRegs == 3

(* ---------------------------------------------------------------------- *)
(* Values (src/src/value.rs)                                               *)
(* ---------------------------------------------------------------------- *)
Int_(n) == [tag |-> "Int", int |-> n, sym |-> "", list |-> <<>>]
Symbol(s) == [tag |-> "Symbol", int |-> 0, sym |-> s, list |-> <<>>]
List(l) == [tag |-> "List", int |-> 0, sym |-> "", list |-> l]

(* ---------------------------------------------------------------------- *)
(* Outcome (src/src/tree/outcome.rs)                                       *)
(* ---------------------------------------------------------------------- *)
Success == [o |-> "Success"]
Failure == [o |-> "Failure"]
OutcomeAction(a) == [o |-> "Action", action |-> a]
Action(index, arguments, effects) ==
    [index |-> index, arguments |-> arguments, effects |-> effects]

is_success(o) == o.o = "Success"
is_non_success(o) == ~is_success(o)
is_failure(o) == o.o = "Failure"
is_non_failure(o) == ~is_failure(o)
is_action(o) == o.o = "Action"
FromBool(b) == IF b THEN Success ELSE Failure

(* ---------------------------------------------------------------------- *)
(* Identifier maps (src/src/tree/id_map.rs)                                *)
(* ---------------------------------------------------------------------- *)
EmptyFn == [n \in {} |-> 0]
IdMapDefault == [indices |-> EmptyFn, nodes |-> <<>>, data |-> <<>>]

IdMapFind(m, id) == IF id \in DOMAIN m.indices THEN m.indices[id] ELSE -1

IdMapSet(m, id, node, data) ==
    IF id \in DOMAIN m.indices
    THEN [map |-> [m EXCEPT !.nodes[m.indices[id] + 1] = node,
                            !.data[m.indices[id] + 1] = data],
          index |-> m.indices[id]]
    ELSE [map |-> [indices |-> (id :> Len(m.nodes)) @@ m.indices,
                   nodes |-> Append(m.nodes, node),
                   data |-> Append(m.data, data)],
          index |-> Len(m.nodes)]

IdMapSetNode(m, index, node) == [m EXCEPT !.nodes[index + 1] = node]
IdMapNode(m, index) == m.nodes[index + 1]
IdMapData(m, index) == m.data[index + 1]

(* ---------------------------------------------------------------------- *)
(* Identifier space (src/src/tree/id_space.rs)                             *)
(* ---------------------------------------------------------------------- *)
KindOrder == <<"Global", "Effect", "Cond", "Query", "Action", "Node">>
Kinds == {KindOrder[i] : i \in 1..Len(KindOrder)}
NoKind == "none"

FieldOf(kind) ==
    CASE kind = "Global" -> "globals"
      [] kind = "Effect" -> "effects"
      [] kind = "Cond" -> "conditions"
      [] kind = "Query" -> "queries"
      [] kind = "Action" -> "action_roots"
      [] kind = "Node" -> "node_roots"

IdSpaceDefault ==
    [globals |-> IdMapDefault, effects |-> IdMapDefault,
     conditions |-> IdMapDefault, queries |-> IdMapDefault,
     action_roots |-> IdMapDefault, node_roots |-> IdMapDefault]

id_map(ids, kind) == ids[FieldOf(kind)]

\* IdSpace::kind: the first map, in declaration order, that holds the name.
IdSpaceKind(ids, name) ==
    LET found == {i \in 1..Len(KindOrder) :
                     IdMapFind(id_map(ids, KindOrder[i]), name) # -1}
    IN IF found = {} THEN NoKind
       ELSE KindOrder[CHOOSE i \in found : \A j \in found : i <= j]

ErrUnknown == [ok |-> FALSE, error |-> "Unknown"]
ErrKind(expected, given) ==
    [ok |-> FALSE, error |-> "Kind", expected |-> expected, given |-> given]
ErrArity(expected, given) ==
    [ok |-> FALSE, error |-> "Arity", expected |-> expected, given |-> given]
OkIndex(kind, index) == [ok |-> TRUE, kind |-> kind, index |-> index]

IdSpaceResolve(ids, kind, name, given) ==
    LET index == IdMapFind(id_map(ids, kind), name) IN
    IF index # -1
    THEN LET expected == IdMapData(id_map(ids, kind), index) IN
         IF given = expected THEN OkIndex(kind, index)
         ELSE ErrArity(expected, given)
    ELSE IF IdSpaceKind(ids, name) # NoKind
    THEN ErrKind({kind}, IdSpaceKind(ids, name))
    ELSE ErrUnknown

\* resolve_ref without its Unknown arm: a name of no kind is reported as a
\* name of the wrong kind.
IdSpaceResolveRefNoUnknown(ids, name, given) ==
    IF IdSpaceKind(ids, name) \in {"Action", "Node", "Cond"}
    THEN IdSpaceResolve(ids, IdSpaceKind(ids, name), name, given)
    ELSE ErrKind({"Action", "Node", "Cond"}, IdSpaceKind(ids, name))

IdSpaceResolveRef(ids, name, given) ==
    LET kind == IdSpaceKind(ids, name) IN
    IF kind = NoKind THEN ErrUnknown
    ELSE IF kind \in {"Action", "Node", "Cond"}
    THEN IdSpaceResolve(ids, kind, name, given)
    ELSE ErrKind({"Action", "Node", "Cond"}, kind)

IdSpaceAction(ids, name) ==
    LET index == IdMapFind(ids.action_roots, name) IN
    IF index # -1 THEN OkIndex("Action", index)
    ELSE IF IdSpaceKind(ids, name) # NoKind
    THEN ErrKind({"Action"}, IdSpaceKind(ids, name))
    ELSE ErrUnknown

IdSpaceActions(ids) == [i \in 1..Len(ids.action_roots.nodes) |-> i - 1]

IdSpaceGet(ids, kind, index) == IdMapNode(id_map(ids, kind), index)

\* set looking for the name in the map of its own kind only.
IdSpaceSetOwnMap(ids, kind, name, node, arity) ==
    IF IdMapFind(id_map(ids, kind), name) # -1
    THEN [ok |-> FALSE, kind |-> kind, index |-> -1, ids |-> ids]
    ELSE [ok |-> TRUE, kind |-> kind,
          index |-> IdMapSet(id_map(ids, kind), name, node, arity).index,
          ids |-> [ids EXCEPT ![FieldOf(kind)] =
                      IdMapSet(id_map(ids, kind), name, node, arity).map]]

IdSpaceSet(ids, kind, name, node, arity) ==
    IF IdSpaceKind(ids, name) # NoKind
    THEN [ok |-> FALSE, kind |-> IdSpaceKind(ids, name), index |-> -1,
          ids |-> ids]
    ELSE LET r == IdMapSet(id_map(ids, kind), name, node, arity) IN
         [ok |-> TRUE, kind |-> kind, index |-> r.index,
          ids |-> [ids EXCEPT ![FieldOf(kind)] = r.map]]

IdSpaceSetNode(ids, kind, index, node) ==
    [ids EXCEPT ![FieldOf(kind)] = IdMapSetNode(@, index, node)]

(* ---------------------------------------------------------------------- *)
(* Host handlers registered by the repository's tests.  A view is          *)
(* [state, nums]; an optional effect is [some, eff].                       *)
(* ---------------------------------------------------------------------- *)
None == [some |-> FALSE]
Some(e) == [some |-> TRUE, eff |-> e]

GlobalFn(handler, view) ==
    CASE handler = "$global" -> Int_(view.state)
      [] handler = "turn" -> Int_(view.state)

CondFn(handler, view, args) ==
    CASE handler = "is-state" ->
            Len(args) = 1 /\ args[1].tag = "Int" /\ args[1].int = view.state
      [] handler = "fail" -> FALSE

EffectFn(handler, view, args) ==
    CASE handler = "emit-value" ->
            IF Len(args) = 1 /\ args[1].tag = "Int"
            THEN Some(args[1].int) ELSE None
      [] handler = "emit-sum" ->
            IF Len(args) = 1 /\ args[1].tag = "Int" /\ view.state # args[1].int
            THEN Some(view.state + args[1].int) ELSE None

\* [called |-> whether the handler invokes iter_fn, items |-> the stream]
QueryFn(handler, view, args) ==
    CASE handler = "nums" ->
            IF Len(args) = 0
            THEN [called |-> TRUE, items |-> view.nums]
            ELSE [called |-> TRUE, items |-> <<>>]

(* ---------------------------------------------------------------------- *)
(* IR (src/src/tree/script/runtime.rs)                                     *)
(* ---------------------------------------------------------------------- *)
PGlobal(index) == [pv |-> "Global", index |-> index]
PLexical(index) == [pv |-> "Lexical", index |-> index]
PValue(value) == [pv |-> "Value", value |-> value]
PList(values) == [pv |-> "List", values |-> values]

PatExact(value) == [p |-> "Exact", value |-> value]
PatBind == [p |-> "Bind"]
PatLexical(index) == [p |-> "Lexical", index |-> index]
PatGlobal(index) == [p |-> "Global", index |-> index]
PatList(patterns) == [p |-> "List", patterns |-> patterns]
PatIgnore == [p |-> "Ignore"]

RefIdx(kind, index) == [kind |-> kind, index |-> index]

NodeSuccess == [node |-> "Success"]
NodeFailure == [node |-> "Failure"]
NodeDispatch(dispatch, branches) ==
    [node |-> "Dispatch", dispatch |-> dispatch, branches |-> branches]
NodeRef(ref, mode, arguments) ==
    [node |-> "Ref", ref |-> ref, mode |-> mode, arguments |-> arguments]
NodeQuery(pattern, index, arguments, mode, branches) ==
    [node |-> "Query", pattern |-> pattern, index |-> index,
     arguments |-> arguments, mode |-> mode, branches |-> branches]
NodeMatch(values, patterns, branches) ==
    [node |-> "Match", values |-> values, patterns |-> patterns,
     branches |-> branches]
NodeRandom(seed, ctx_seeds, branches, check_any) ==
    [node |-> "Random", seed |-> seed, ctx_seeds |-> ctx_seeds,
     branches |-> branches, check_any |-> check_any]
NodeCond(branches, else_branch) ==
    [node |-> "Cond", branches |-> branches, else_branch |-> else_branch]

NoIndex == -1

ActionRoot(index, effects, inherit, conditions, discovery, lexicals) ==
    [index |-> index, effects |-> effects, inherit |-> inherit,
     conditions |-> conditions, discovery |-> discovery,
     lexicals |-> lexicals]
ActionRootDefault == ActionRoot(NoIndex, <<>>, <<>>, <<>>, <<>>, 0)

NodeRoot(index, node, lexicals) ==
    [index |-> index, node |-> node, lexicals |-> lexicals]
NodeRootDefault == NodeRoot(NoIndex, NodeFailure, 0)

(* ---------------------------------------------------------------------- *)
(* Contexts (src/src/tree/context.rs).  memo = FALSE is the reference      *)
(* evaluation in which a Ref never consults the cache.                     *)
(* ---------------------------------------------------------------------- *)
EvalContextNew(view, tree, memo) ==
    [view |-> view, tree |-> tree, disc |-> FALSE, is_active |-> TRUE,
     index |-> NoIndex, memo |-> memo, lexicals |-> 0, conds |-> FALSE]

DiscoveryContextNew(view, tree, index, memo) ==
    [view |-> view, tree |-> tree, disc |-> TRUE, is_active |-> FALSE,
     index |-> index, memo |-> memo, lexicals |-> 0, conds |-> FALSE]

DiscoveryContextFromContext(ctx, index) ==
    [view |-> ctx.view, tree |-> ctx.tree, disc |-> TRUE,
     is_active |-> FALSE, index |-> index, memo |-> ctx.memo,
     lexicals |-> ctx.lexicals, conds |-> ctx.conds]

\* The context while the conditions of an action are evaluated, and all
\* that is reached from them.
InConditions(ctx) == [ctx EXCEPT !.conds = TRUE]

\* The context while a root is evaluated: lexicals is the capacity the root
\* gives its frame (Lex::with_capacity(self.lexicals)).
InRoot(ctx, root) == [ctx EXCEPT !.lexicals = root.lexicals]

CtxIsActive(ctx) == IF ctx.disc THEN FALSE ELSE ctx.is_active

\* to_inactive leaving the context as it is.
CtxStaysActive(ctx) == ctx

CtxToInactive(ctx) ==
    IF ctx.disc THEN ctx ELSE [ctx EXCEPT !.is_active = FALSE]

CtxToInactiveIfActive(ctx) ==
    IF CtxIsActive(ctx) THEN CtxToInactive(ctx) ELSE ctx

\* The evaluation state threaded through a call: the shared cache, the
\* collection of the innermost discovery context, and the record of what
\* the call did.  The lexical frame is passed down separately: every scope
\* that extends it truncates it again on all paths (scopeguard).
\* The state a call works on: the cache, the sink, the record of what
\* happened, and lex, the frame of the root being evaluated (the vector
\* behind the lex: &mut Lex every node of the root is given).
StateNew(sink) ==
    [cache |-> <<>>, sink |-> sink, trace |-> <<>>, lex |-> <<>>]

\* A root starts on a frame of its own.
FrameNew(st, values) == [st EXCEPT !.lex = values]

Log(st, event) == [st EXCEPT !.trace = Append(@, event)]

Called(kind, index, arguments) ==
    [ev |-> "call", kind |-> kind, index |-> index, args |-> arguments]

EvalContextAction(ctx, action) ==
    IF ctx.is_active THEN OutcomeAction(action) ELSE Failure

\* DiscoveryContext::action without the target filter.
DiscoveryContextActionUnfiltered(ctx, action, sink) ==
    [out |-> Success, sink |-> Append(sink, action)]

DiscoveryContextAction(ctx, action, sink) ==
    IF ctx.index = NoIndex \/ ctx.index = action.index
    THEN [out |-> Success, sink |-> Append(sink, action)]
    ELSE [out |-> Failure, sink |-> sink]

CtxAction(ctx, action, st) ==
    LET r == IF ctx.disc
             THEN DiscoveryContextAction(ctx, action, st.sink)
             ELSE [out |-> EvalContextAction(ctx, action), sink |-> st.sink]
    IN [out |-> r.out,
        st |-> [st EXCEPT !.sink = r.sink,
                          !.trace = Append(@,
                              [ev |-> "action", disc |-> ctx.disc,
                               is_active |-> CtxIsActive(ctx),
                               filter |-> ctx.index, action |-> action,
                               conds |-> ctx.conds,
                               out |-> r.out, before |-> st.sink,
                               after |-> r.sink])]]

(* ---------------------------------------------------------------------- *)
(* Memoization cache (src/src/tree/context.rs)                             *)
(* ---------------------------------------------------------------------- *)
LRU_LEN == 4096

CacheLine(index, is_active, arguments, outcome) ==
    [index |-> index, is_active |-> is_active, arguments |-> arguments,
     outcome |-> outcome]

\* ContextCache::find: the position of the first matching line, or -1.
CacheFind(lru, index, arguments, is_active) ==
    LET found == {i \in 1..Len(lru) : /\ lru[i].index = index
                                      /\ lru[i].is_active = is_active
                                      /\ lru[i].arguments = arguments}
    IN IF found = {} THEN -1
       ELSE (CHOOSE i \in found : \A j \in found : i <= j) - 1

Truncate(s, n) == IF Len(s) > n THEN SubSeq(s, 1, n) ELSE s
Remove(s, i) == SubSeq(s, 1, i) \o SubSeq(s, i + 2, Len(s))

\* An insert that never truncates.
CacheInsertUnbounded(lru, cl) == <<cl>> \o lru

CacheInsert(lru, cl) == Truncate(<<cl>> \o lru, LRU_LEN)

CacheReplaceOrInsert(lru, cl) ==
    LET index == CacheFind(lru, cl.index, cl.arguments, cl.is_active) IN
    IF index # -1 THEN <<cl>> \o Remove(lru, index)
    ELSE CacheInsert(lru, cl)

(* ---------------------------------------------------------------------- *)
(* Evaluator (src/src/tree/script/runtime.rs).  Every operator returns     *)
(* the outcome together with the state it leaves.                          *)
(* ---------------------------------------------------------------------- *)
Ret(out, st) == [out |-> out, st |-> st]

RECURSIVE Reify(_, _, _)
Reify(ctx, pv, lex) ==
    CASE pv.pv = "Global" ->
            GlobalFn(IdSpaceGet(ctx.tree.ids, "Global", pv.index), ctx.view)
      [] pv.pv = "Lexical" -> lex[pv.index + 1]
      [] pv.pv = "Value" -> pv.value
      [] pv.pv = "List" ->
            List([i \in 1..Len(pv.values) |-> Reify(ctx, pv.values[i], lex)])

reify_values(ctx, lex, values) ==
    [i \in 1..Len(values) |-> Reify(ctx, values[i], lex)]

\* Pattern::try_apply; returns [ok, lex].  Patterns and values are zipped
\* and applied until the first one that fails.
RECURSIVE try_apply(_, _, _, _)
RECURSIVE ApplyAll(_, _, _, _, _)
try_apply_zipped(ctx, pattern, lex, value) ==
    CASE pattern.p = "Ignore" -> [ok |-> TRUE, lex |-> lex]
      [] pattern.p = "Bind" -> [ok |-> TRUE, lex |-> Append(lex, value)]
      [] pattern.p = "Exact" -> [ok |-> value = pattern.value, lex |-> lex]
      [] pattern.p = "Lexical" ->
            [ok |-> value = lex[pattern.index + 1], lex |-> lex]
      [] pattern.p = "Global" ->
            [ok |-> value = GlobalFn(IdSpaceGet(ctx.tree.ids, "Global",
                                                pattern.index), ctx.view),
             lex |-> lex]
      [] pattern.p = "List" ->
            IF value.tag = "List"
            THEN ApplyAll(ctx, pattern.patterns, value.list, 1, lex)
            ELSE [ok |-> FALSE, lex |-> lex]

try_apply(ctx, pattern, lex, value) ==
    CASE pattern.p = "Ignore" -> [ok |-> TRUE, lex |-> lex]
      [] pattern.p = "Bind" -> [ok |-> TRUE, lex |-> Append(lex, value)]
      [] pattern.p = "Exact" -> [ok |-> value = pattern.value, lex |-> lex]
      [] pattern.p = "Lexical" ->
            [ok |-> value = lex[pattern.index + 1], lex |-> lex]
      [] pattern.p = "Global" ->
            [ok |-> value = GlobalFn(IdSpaceGet(ctx.tree.ids, "Global",
                                                pattern.index), ctx.view),
             lex |-> lex]
      [] pattern.p = "List" ->
            IF value.tag = "List"
            THEN IF Len(pattern.patterns) = Len(value.list)
                 THEN ApplyAll(ctx, pattern.patterns, value.list, 1, lex)
                 ELSE [ok |-> FALSE, lex |-> lex]
            ELSE [ok |-> FALSE, lex |-> lex]

ApplyAll(ctx, patterns, values, i, lex) ==
    IF i > Len(patterns) \/ i > Len(values) THEN [ok |-> TRUE, lex |-> lex]
    ELSE LET r == try_apply(ctx, patterns[i], lex, values[i]) IN
         IF r.ok THEN ApplyAll(ctx, patterns, values, i + 1, r.lex)
         ELSE r

RefModeApply(mode, ctx) ==
    IF mode = "Query" THEN CtxToInactiveIfActive(ctx) ELSE ctx

\* The record of the patterns of a match node applied to its values: the
\* frame before, whether they matched, and the frame they left.
Applied(ctx, node, lex, m) ==
    [ev |-> "match", patterns |-> node.patterns,
     values |-> reify_values(ctx, lex, node.values), lex |-> lex,
     ok |-> m.ok, bound |-> m.lex, lexicals |-> ctx.lexicals]

\* The record of the pattern of a query applied to one value.
Framed(ctx, m) ==
    [ev |-> "frame", ok |-> m.ok, bound |-> m.lex, lexicals |-> ctx.lexicals]

\* The lexical slots a proto value reads, and those the proto values of a
\* node read when the node is evaluated.
RECURSIVE LexicalsIn(_)
LexicalsIn(pv) ==
    CASE pv.pv = "Lexical" -> {pv.index}
      [] pv.pv = "List" ->
            UNION {LexicalsIn(pv.values[i]) : i \in 1..Len(pv.values)}
      [] OTHER -> {}

LexicalsRead(node) ==
    LET read == CASE node.node \in {"Ref", "Query"} -> node.arguments
                  [] node.node = "Match" -> node.values
                  [] OTHER -> <<>>
    IN UNION {LexicalsIn(read[i]) : i \in 1..Len(read)}

\* The record of a compiled node being evaluated: the number of variables
\* in scope where it was compiled, the length of the frame it is given and
\* the slots its values read.
Entered(node, st) ==
    IF "scope" \in DOMAIN node
    THEN Log(st, [ev |-> "node", node |-> node.node, scope |-> node.scope,
                  frame |-> Len(st.lex), reads |-> LexicalsRead(node)])
    ELSE st

\* A scope that is left without truncating the frame.
ScopeLeaveKept(lex_len, frame) == frame

\* lex.truncate(lex_len), which the scopeguard of a Match or a Query node
\* runs when the node returns.
ScopeLeave(lex_len, frame) ==
    IF Len(frame) > lex_len THEN SubSeq(frame, 1, lex_len) ELSE frame

\* A Match or Query node returns r: the frame is truncated to the length
\* lex_len it had before the node, and the lengths are recorded.
Left(kind, lex_len, r) ==
    [r EXCEPT !.st.lex = ScopeLeave(lex_len, @),
              !.st.trace =
                  Append(@, [ev |-> "left", node |-> kind,
                             before |-> lex_len, bound |-> Len(r.st.lex),
                             after |-> Len(ScopeLeave(lex_len, r.st.lex)),
                             out |-> r.out])]

\* A reference returns r to a node whose frame is lex: the root it
\* evaluated had a frame of its own.
CallerFrame(lex, r) == [r EXCEPT !.st.lex = lex]

RECURSIVE NodeEval(_, _, _, _)
RECURSIVE eval_match(_, _, _, _)
RECURSIVE DispatchLoop(_, _, _, _, _, _, _)
RECURSIVE CondLoop(_, _, _, _, _, _)
RECURSIVE QueryLoop(_, _, _, _, _, _, _, _)
RECURSIVE RefCalc(_, _, _, _)
RECURSIVE InheritLoop(_, _, _, _, _)
RECURSIVE RefIdxEval(_, _, _, _, _)
RECURSIVE DispatchStep(_, _, _, _, _, _, _, _)
RECURSIVE QueryStep(_, _, _, _, _, _, _, _)
RECURSIVE InheritStep(_, _, _, _, _)

\* A dispatch that an Action does not stop.
DispatchStopOnPlain(dispatch) ==
    CASE dispatch = "Sequence" -> {"Failure"}
      [] dispatch = "Selection" -> {"Success"}
      [] dispatch = "None" -> {"Success"}
      [] dispatch = "Visit" -> {}

\* A dispatch that succeeds when no branch stopped it, whatever its kind.
DispatchDefaultSuccess(dispatch) == Success

\* The outcomes of a branch on which a dispatch stops, the outcome it then
\* returns, and the outcome it returns when no branch stopped it.
DispatchStopOn(dispatch) ==
    CASE dispatch = "Sequence" -> {"Failure", "Action"}
      [] dispatch = "Selection" -> {"Success", "Action"}
      [] dispatch = "None" -> {"Success", "Action"}
      [] dispatch = "Visit" -> {}

DispatchStopped(dispatch, out) ==
    IF dispatch = "None" THEN Failure ELSE out

DispatchDefault(dispatch) ==
    IF dispatch = "Selection" THEN Failure ELSE Success

\* The context a dispatch hands to its branches.
DispatchContext(dispatch, ctx) == ctx

\* The end of Dispatch::eval_branches: outs are the branches that were
\* evaluated, each with its outcome, in evaluation order.
Dispatched(ctx, dispatch, nodes, outs, out, st) ==
    Ret(out, Log(st, [ev |-> "branches", dispatch |-> dispatch,
                      nodes |-> nodes, n |-> Len(nodes), outs |-> outs,
                      out |-> out, filter |-> ctx.index,
                      is_active |-> CtxIsActive(ctx),
                      branch_active |->
                          CtxIsActive(DispatchContext(dispatch, ctx)),
                      disc |-> ctx.disc]))

\* A branch that was evaluated: its position, its outcome and the actions
\* it appended to the sink, which held n actions before it.
Branched(outs, i, n, r) ==
    Append(outs, [branch |-> i, out |-> r.out,
                  added |-> SubSeq(r.st.sink, n + 1, Len(r.st.sink))])

\* The loop of Dispatch::eval_branches at branch i, and what it does with
\* the branch's result r.
DispatchLoop(ctx, lex, dispatch, nodes, i, outs, st) ==
    IF i > Len(nodes)
    THEN Dispatched(ctx, dispatch, nodes, outs, DispatchDefault(dispatch), st)
    ELSE DispatchStep(ctx, lex, dispatch, nodes, i, outs, Len(st.sink),
                      NodeEval(DispatchContext(dispatch, ctx), lex, nodes[i],
                               st))

DispatchStep(ctx, lex, dispatch, nodes, i, outs, n, r) ==
    IF r.out.o \in DispatchStopOn(dispatch)
    THEN Dispatched(ctx, dispatch, nodes, Branched(outs, i, n, r),
                    DispatchStopped(dispatch, r.out), r.st)
    ELSE DispatchLoop(ctx, lex, dispatch, nodes, i + 1,
                      Branched(outs, i, n, r), r.st)

eval_branches(ctx, lex, dispatch, nodes, st) ==
    DispatchLoop(ctx, lex, dispatch, nodes, 1, <<>>, st)

eval_sequence(ctx, lex, nodes, st) ==
    eval_branches(ctx, lex, "Sequence", nodes, st)

\* Node::eval for Match once the patterns were applied (m): the frame
\* holds what they bound, matched or not.
eval_match(ctx, node, m, st) ==
    IF m.ok
    THEN eval_sequence(ctx, m.lex, node.branches,
                       Log(FrameNew(st, m.lex), Applied(ctx, node, st.lex, m)))
    ELSE Ret(Failure,
             Log(FrameNew(st, m.lex), Applied(ctx, node, st.lex, m)))

RECURSIVE CondStep(_, _, _, _, _, _)
RECURSIVE RandomLoop(_, _, _, _, _, _)
RECURSIVE RandomStep(_, _, _, _, _, _)
RECURSIVE AnyLoop(_, _, _, _, _, _, _, _)
RECURSIVE AnyStep(_, _, _, _, _, _, _, _)
\* The end of Node::Cond: guards are the outcomes of the guards it
\* evaluated, in the context whose activeness is recorded; chosen is the
\* case whose body gave the result r, 0 if none did.
Conded(ctx, node, guards, chosen, r) ==
    [r EXCEPT !.st.trace =
        Append(@, [ev |-> "cond", n |-> Len(node.branches),
                   has_else |-> Len(node.else_branch) > 0,
                   guards |-> guards, chosen |-> chosen,
                   is_active |-> CtxIsActive(ctx),
                   guard_active |-> CtxIsActive(ctx), out |-> r.out])]

CondLoop(ctx, lex, node, i, guards, st) ==
    IF i > Len(node.branches)
    THEN IF Len(node.else_branch) > 0
         THEN Conded(ctx, node, guards, 0,
                     NodeEval(ctx, lex, node.else_branch[1], st))
         ELSE Conded(ctx, node, guards, 0, Ret(Failure, st))
    ELSE CondStep(ctx, lex, node, i, guards,
                  NodeEval(ctx, lex, node.branches[i][1], st))

CondStep(ctx, lex, node, i, guards, g) ==
    CASE g.out.o = "Success" ->
            Conded(ctx, node, Append(guards, g.out), i,
                   NodeEval(ctx, lex, node.branches[i][2], g.st))
      [] g.out.o = "Failure" ->
            CondLoop(ctx, lex, node, i + 1, Append(guards, g.out), g.st)
      [] OTHER -> Conded(ctx, node, Append(guards, g.out), 0, g)

\* QueryMode::eval_query.  last is the outcome of the latest item whose
\* branches were evaluated.
\* A query that no body outcome stops.
QueryStopOnNever(mode) == {}

QueryStopOn(mode) ==
    CASE mode = "Sequence" -> {"Failure", "Action"}
      [] mode = "Selection" -> {"Success", "Action"}
      [] mode = "First" -> {"Success", "Failure", "Action"}
      [] mode = "Last" -> {}
      [] mode = "Visit" -> {}

\* A query that succeeds when no body outcome stopped it, whatever its mode.
QueryDefaultSuccess(mode, last) == Success

QueryDefault(mode, last) ==
    CASE mode = "Sequence" -> Success
      [] mode = "Selection" -> Failure
      [] mode = "First" -> Failure
      [] mode = "Last" -> last
      [] mode = "Visit" -> Success

\* The seed a context seed contributes: the number its handler returns for
\* the view.
SeedFn(ctx, index) ==
    GlobalFn(IdSpaceGet(ctx.tree.ids, "Global", index), ctx.view).int

RECURSIVE EffectiveSeed(_, _, _, _)
EffectiveSeed(ctx, seed, ctx_seeds, i) ==
    IF i > Len(ctx_seeds) THEN seed
    ELSE EffectiveSeed(ctx, seed + SeedFn(ctx, ctx_seeds[i]), ctx_seeds,
                       i + 1)

\* Rng::with_seed(seed).shuffle: an order of the branches that the seed
\* decides and that differs between seeds; here the order whose number in
\* the factorial number system is the seed.
RECURSIVE Shuffle(_, _)
Shuffle(seed, branches) ==
    IF Len(branches) = 0 THEN <<>>
    ELSE <<branches[(seed % Len(branches)) + 1]>>
         \o Shuffle(seed \div Len(branches),
                    Remove(branches, seed % Len(branches)))

\* The end of Node::Random: taken are the outcomes of the branches it took
\* from the end of the shuffled branches, scanned those of the branches the
\* check_any scan evaluated, in the context whose activeness is recorded.
Randomized(ctx, node, taken, scanned, out, st) ==
    Ret(out, Log(st, [ev |-> "random", check_any |-> node.check_any,
                      n |-> Len(node.branches), taken |-> taken,
                      scanned |-> scanned, disc |-> ctx.disc,
                      is_active |-> CtxIsActive(ctx),
                      scan_active |-> CtxIsActive(ctx), out |-> out]))

\* The loop of Node::Random over the shuffled branches, taken from the end,
\* and what it does with the result r of the branch it took.
RandomLoop(ctx, lex, node, branches, taken, st) ==
    IF Len(branches) = 0
    THEN Randomized(ctx, node, taken, <<>>, Failure, st)
    ELSE RandomStep(ctx, lex, node, SubSeq(branches, 1, Len(branches) - 1),
                    taken, NodeEval(ctx, lex, branches[Len(branches)], st))

RandomStep(ctx, lex, node, branches, taken, r) ==
    CASE is_success(r.out) ->
            Randomized(ctx, node, Append(taken, r.out), <<>>, r.out, r.st)
      [] is_action(r.out) ->
            IF node.check_any
            THEN AnyLoop(ctx, lex, node, branches, 1, Append(taken, r.out),
                         <<>>, r.st)
            ELSE Randomized(ctx, node, Append(taken, r.out), <<>>, r.out,
                            r.st)
      [] OTHER -> RandomLoop(ctx, lex, node, branches, Append(taken, r.out),
                             r.st)

\* The scan of check_any over the branches that are left, from the front.
AnyLoop(ctx, lex, node, branches, i, taken, scanned, st) ==
    IF i > Len(branches)
    THEN Randomized(ctx, node, taken, scanned, taken[Len(taken)], st)
    ELSE AnyStep(ctx, lex, node, branches, i, taken, scanned,
                 NodeEval(ctx, lex, branches[i], st))

AnyStep(ctx, lex, node, branches, i, taken, scanned, r) ==
    IF is_success(r.out)
    THEN Randomized(ctx, node, taken, Append(scanned, r.out), Success, r.st)
    ELSE AnyLoop(ctx, lex, node, branches, i + 1, taken,
                 Append(scanned, r.out), r.st)

eval_random(ctx, lex, node, st) ==
    RandomLoop(ctx, lex, node,
               Shuffle(EffectiveSeed(ctx, node.seed, node.ctx_seeds, 1),
                       node.branches), <<>>, st)

\* The record of one query node's evaluation: the values the query yielded
\* and, for every value the pattern matched, the outcome of the body and the
\* actions it appended to the sink.
Queried(ctx, lex, node, items, visits, out, st) ==
    Ret(out, Log(st, [ev |-> "query", mode |-> node.mode,
                      pattern |-> node.pattern, lex |-> lex,
                      items |-> items, visits |-> visits, out |-> out,
                      disc |-> ctx.disc]))

Visited(visits, i, n, r) ==
    Append(visits, [item |-> i, out |-> r.out,
                    added |-> SubSeq(r.st.sink, n + 1, Len(r.st.sink))])

QueryLoop(ctx, lex, node, items, i, last, visits, st) ==
    IF i > Len(items)
    THEN Queried(ctx, lex, node, items, visits,
                 QueryDefault(node.mode, last), st)
    ELSE LET m == try_apply(ctx, node.pattern,
                            ScopeLeave(Len(lex), st.lex), items[i]) IN
         IF ~m.ok
         THEN QueryLoop(ctx, lex, node, items, i + 1, last, visits,
                        Log(FrameNew(st, m.lex), Framed(ctx, m)))
         ELSE QueryStep(ctx, lex, node, items, i, visits, Len(st.sink),
                        eval_sequence(ctx, m.lex, node.branches,
                                      Log(FrameNew(st, m.lex),
                                          Framed(ctx, m))))

QueryStep(ctx, lex, node, items, i, visits, n, r) ==
    IF r.out.o \in QueryStopOn(node.mode)
    THEN Queried(ctx, lex, node, items, Visited(visits, i, n, r), r.out, r.st)
    ELSE QueryLoop(ctx, lex, node, items, i + 1, r.out,
                   Visited(visits, i, n, r), r.st)

eval_query(ctx, lex, node, st) ==
    LET arguments == reify_values(ctx, lex, node.arguments)
        q == QueryFn(IdSpaceGet(ctx.tree.ids, "Query", node.index),
                     ctx.view, arguments)
    IN IF q.called
       THEN QueryLoop(ctx, lex, node, q.items, 1, Failure, <<>>,
                      Log(st, Called("Query", node.index, arguments)))
       ELSE Ret(Failure, Log(st, Called("Query", node.index, arguments)))

\* Node::eval.  The frame is st.lex: a node reads and binds in the frame
\* as the nodes before it left it.
NodeEval(ctx, lex, node, st) ==
    CASE node.node = "Failure" -> Ret(Failure, st)
      [] node.node = "Success" -> Ret(Success, st)
      [] node.node = "Dispatch" ->
            eval_branches(ctx, st.lex, node.dispatch, node.branches,
                          Entered(node, st))
      [] node.node = "Ref" ->
            CallerFrame(st.lex,
                RefIdxEval(ctx, node.ref, node.mode,
                           reify_values(ctx, st.lex, node.arguments),
                           Entered(node, st)))
      [] node.node = "Match" ->
            Left("Match", Len(st.lex),
                 eval_match(ctx, node,
                     ApplyAll(ctx, node.patterns,
                              reify_values(ctx, st.lex, node.values), 1,
                              st.lex),
                     Entered(node, st)))
      [] node.node = "Query" ->
            Left("Query", Len(st.lex),
                 eval_query(ctx, st.lex, node, Entered(node, st)))
      [] node.node = "Random" ->
            eval_random(ctx, st.lex, node, Entered(node, st))
      [] node.node = "Cond" -> CondLoop(ctx, st.lex, node, 1, <<>>, st)

\* ContextCache::get with calc_outcome = RefCalc: a hit moves the line to
\* the front; a miss inserts a tentative Failure line, computes, and
\* replaces the line by the computed outcome.
\* A cache line left out of the cache: the computed outcome is dropped.
CacheFillDropped(cl, r) == r

CacheFill(cl, r) ==
    [r EXCEPT !.st.cache =
                 CacheReplaceOrInsert(@, [cl EXCEPT !.outcome = r.out]),
              !.st.trace =
                 Append(@, [ev |-> "fill", ref |-> cl.index,
                            args |-> cl.arguments,
                            is_active |-> cl.is_active, out |-> r.out])]

\* The records of a get that found a line and of one that found none.
CacheHit(ctx, ref, arguments, out) ==
    [ev |-> "hit", ref |-> ref, args |-> arguments,
     is_active |-> CtxIsActive(ctx), out |-> out]

CacheMiss(ctx, ref, arguments) ==
    [ev |-> "miss", ref |-> ref, args |-> arguments,
     is_active |-> CtxIsActive(ctx)]

\* The first branch of get: the line found at index is removed, inserted
\* at the front, and its outcome returned.
CacheGetHit(ctx, ref, arguments, index, st) ==
    Ret(st.cache[index + 1].outcome,
        [st EXCEPT !.cache = CacheInsert(Remove(@, index), @[index + 1]),
                   !.trace = Append(@, CacheHit(ctx, ref, arguments,
                                                st.cache[index + 1].outcome))])

\* The second branch of get up to the call of calc_outcome: a line with
\* Outcome::Failure is inserted.
CacheGetMiss(ctx, ref, arguments, st) ==
    [st EXCEPT !.cache = CacheInsert(@, CacheLine(ref, CtxIsActive(ctx),
                                                  arguments, Failure)),
               !.trace = Append(@, CacheMiss(ctx, ref, arguments))]

ContextCacheGet(ctx, ref, arguments, st) ==
    LET index == CacheFind(st.cache, ref, arguments, CtxIsActive(ctx)) IN
    IF index # -1
    THEN CacheGetHit(ctx, ref, arguments, index, st)
    ELSE CacheFill(CacheLine(ref, CtxIsActive(ctx), arguments, Failure),
                   RefCalc(ctx, ref, arguments,
                           CacheGetMiss(ctx, ref, arguments, st)))

\* The record of a reference that has returned r: the activeness of the
\* context it was made in and of the one its target was evaluated in.
Referred(ctx, ref, mode, arguments, r) ==
    [r EXCEPT !.st.trace =
        Append(@, [ev |-> "ref", ref |-> ref, mode |-> mode,
                   args |-> arguments, disc |-> ctx.disc,
                   conds |-> ctx.conds,
                   caller_active |-> CtxIsActive(ctx),
                   target_active |-> CtxIsActive(RefModeApply(mode, ctx)),
                   out |-> r.out])]

RefIdxEval(ctx, ref, mode, arguments, st) ==
    Referred(ctx, ref, mode, arguments,
        IF ctx.memo
        THEN ContextCacheGet(RefModeApply(mode, ctx), ref, arguments, st)
        ELSE RefCalc(RefModeApply(mode, ctx), ref, arguments, st))

\* ActionRoot::conditions_ok; the caller tests the outcome for success.
conditions_ok(ctx, root, lex, st) ==
    eval_sequence(InConditions(CtxToInactiveIfActive(ctx)), lex,
                  root.conditions, st)

\* The declared effects of a root, each as the handler returns it.
RootEffects(ctx, root, lex) ==
    [i \in 1..Len(root.effects) |->
        EffectFn(IdSpaceGet(ctx.tree.ids, "Effect", root.effects[i][1]),
                 ctx.view, reify_values(ctx, lex, root.effects[i][2]))]

\* A loop that calls every effect handler.
EffectsCalledAll(effs) == Len(effs)

\* How many effect handlers the loop calls: up to the first None.
EffectsCalled(effs) ==
    IF \A i \in 1..Len(effs) : effs[i].some THEN Len(effs)
    ELSE CHOOSE i \in 1..Len(effs) :
            ~effs[i].some /\ \A j \in 1..(i - 1) : effs[j].some

EffectCalls(ctx, root, lex, n) ==
    [i \in 1..n |-> Called("Effect", root.effects[i][1],
                           reify_values(ctx, lex, root.effects[i][2]))]

\* The loop of ActionRoot::eval over the inherit nodes.
InheritLoop(ctx, lex, nodes, i, st) ==
    IF i > Len(nodes) THEN Ret(Success, st)
    ELSE InheritStep(ctx, lex, nodes, i, NodeEval(ctx, lex, nodes[i], st))

InheritStep(ctx, lex, nodes, i, r) ==
    IF r.out.o = "Failure" THEN r
    ELSE InheritLoop(ctx, lex, nodes, i + 1, r.st)

RECURSIVE InheritedEffects(_)
InheritedEffects(inherited) ==
    IF inherited = <<>> THEN <<>>
    ELSE Head(inherited).effects \o InheritedEffects(Tail(inherited))

\* An action listing the inherited effects before its own.
ActionEffectsInheritedFirst(own, inherited) ==
    InheritedEffects(inherited) \o own

ActionEffects(own, inherited) == own \o InheritedEffects(inherited)

\* ActionRoot::eval, from its end to its start: the action is made and
\* handed to the context; the inherit nodes have run (h), under a discovery
\* context with a collection of their own, and the caller's collection is
\* put back; the effects have been materialized (effs); the conditions have
\* been evaluated (c).
ActionRootMade(ctx, action, own, inherited, st) ==
    CtxAction(ctx, action,
              Log(st, [ev |-> "made", action |-> action, own |-> own,
                       inherited |-> inherited]))

ActionRootInherited(ctx, root, arguments, own, sink, h) ==
    IF is_failure(h.out) THEN Ret(Failure, [h.st EXCEPT !.sink = sink])
    ELSE ActionRootMade(ctx,
             Action(root.index, arguments, ActionEffects(own, h.st.sink)),
             own, h.st.sink, [h.st EXCEPT !.sink = sink])

ActionRootEffects(ctx, root, arguments, effs, st) ==
    IF \E i \in 1..Len(effs) : ~effs[i].some THEN Ret(Failure, st)
    ELSE ActionRootInherited(ctx, root, arguments,
             [i \in 1..Len(effs) |-> effs[i].eff], st.sink,
             InheritLoop(DiscoveryContextFromContext(ctx, NoIndex),
                         arguments, root.inherit, 1,
                         [st EXCEPT !.sink = <<>>]))

\* The record of the conditions of a root having been evaluated: their
\* outcome and the actions they appended to the sink, which held n before.
Conditioned(ctx, root, arguments, n, c) ==
    [ev |-> "conditions", index |-> root.index, args |-> arguments,
     out |-> c.out, disc |-> ctx.disc,
     is_active |-> CtxIsActive(CtxToInactiveIfActive(ctx)),
     added |-> SubSeq(c.st.sink, n + 1, Len(c.st.sink))]

ActionRootConditions(ctx, root, arguments, effs, n, c) ==
    IF ~is_success(c.out)
    THEN Ret(Failure, Log(c.st, Conditioned(ctx, root, arguments, n, c)))
    ELSE ActionRootEffects(ctx, root, arguments, effs,
             [c.st EXCEPT !.trace =
                 Append(@, Conditioned(ctx, root, arguments, n, c))
                 \o EffectCalls(ctx, root, arguments,
                                EffectsCalled(effs))])

ActionRootEval(ctx, root, arguments, st) ==
    ActionRootConditions(InRoot(ctx, root), root, arguments,
        RootEffects(ctx, root, arguments), Len(st.sink),
        conditions_ok(InRoot(ctx, root), root, arguments,
            Log(FrameNew(st, arguments),
                [ev |-> "root", kind |-> "Action",
                 index |-> root.index, args |-> arguments,
                 lexicals |-> root.lexicals])))

NodeRootEval(ctx, root, arguments, st) ==
    NodeEval(InRoot(ctx, root), arguments, root.node,
             Log(FrameNew(st, arguments),
                 [ev |-> "root", kind |-> "Node", index |-> root.index,
                  args |-> arguments, lexicals |-> root.lexicals]))

RefCalc(ctx, ref, arguments, st) ==
    CASE ref.kind = "Action" ->
            ActionRootEval(ctx, IdSpaceGet(ctx.tree.ids, "Action", ref.index),
                           arguments, st)
      [] ref.kind = "Cond" ->
            Ret(FromBool(CondFn(IdSpaceGet(ctx.tree.ids, "Cond", ref.index),
                                ctx.view, arguments)),
                Log(st, Called("Cond", ref.index, arguments)))
      [] ref.kind = "Node" ->
            NodeRootEval(ctx, IdSpaceGet(ctx.tree.ids, "Node", ref.index),
                         arguments, st)

RECURSIVE DiscoveryLoop(_, _, _, _, _)
DiscoveryLoop(ctx, lex, nodes, i, st) ==
    IF i > Len(nodes) THEN st
    ELSE DiscoveryLoop(ctx, lex, nodes, i + 1,
                       NodeEval(ctx, lex, nodes[i], st).st)

eval_discovery_nodes(ctx, root, st) ==
    DiscoveryLoop(InRoot(ctx, root), <<>>, root.discovery, 1,
                  FrameNew(st, <<>>))

(* ---------------------------------------------------------------------- *)
(* BehaviorTree (src/src/tree.rs).  A call returns [result, st] where      *)
(* result is [ok |-> TRUE, outcome] or an IdError.                         *)
(* ---------------------------------------------------------------------- *)
Ok(outcome) == [ok |-> TRUE, outcome |-> outcome]

Evaluated(r) == [result |-> Ok(r.out), st |-> r.st]

eval_node(ctx, name, arguments, st) ==
    LET ref == IdSpaceResolveRef(ctx.tree.ids, name, Len(arguments)) IN
    IF ~ref.ok THEN [result |-> ref, st |-> st]
    ELSE Evaluated(RefCalc(ctx, ref, arguments, st))

BehaviorTreeEvaluate(tree, view, root, arguments, memo, sink) ==
    eval_node(EvalContextNew(view, tree, memo), root, arguments,
              StateNew(sink))

BehaviorTreeCheck(tree, view, root, arguments, memo, sink) ==
    eval_node(CtxToInactive(EvalContextNew(view, tree, memo)), root,
              arguments, StateNew(sink))

\* The loop of discover_all over the actions of the tree, in index order,
\* each under a discovery context of its own sharing one cache.
RECURSIVE DiscoverAllLoop(_, _, _, _, _)
DiscoverAllLoop(tree, view, memo, i, st) ==
    IF i > Len(IdSpaceActions(tree.ids)) THEN st
    ELSE DiscoverAllLoop(tree, view, memo, i + 1,
             eval_discovery_nodes(
                 DiscoveryContextNew(view, tree,
                                     IdSpaceActions(tree.ids)[i], memo),
                 IdSpaceGet(tree.ids, "Action", IdSpaceActions(tree.ids)[i]),
                 st))

BehaviorTreeDiscoverAll(tree, view, memo, sink) ==
    [result |-> Ok(Success),
     st |-> DiscoverAllLoop(tree, view, memo, 1, StateNew(sink))]

BehaviorTreeDiscover(tree, view, action, memo, sink) ==
    LET ref == IdSpaceAction(tree.ids, action) IN
    IF ~ref.ok THEN [result |-> ref, st |-> StateNew(sink)]
    ELSE [result |-> Ok(Success),
          st |-> eval_discovery_nodes(
                     DiscoveryContextNew(view, tree, ref.index, memo),
                     IdSpaceGet(tree.ids, "Action", ref.index),
                     StateNew(sink))]

(* ---------------------------------------------------------------------- *)
(* Building trees: the identifier space after the host registrations       *)
(* (src/src/tree/builder.rs) and the declaration and compilation of the    *)
(* script roots (src/src/tree/script/compile.rs), for distinct names.      *)
(* ---------------------------------------------------------------------- *)
Reg(kind, name, node, arity) ==
    [kind |-> kind, name |-> name, node |-> node, arity |-> arity]

OfKind(entries, kind) == SelectSeq(entries, LAMBDA e : e.kind = kind)

\* The map IdMap::set builds from entries with distinct names, in order.
IdMapOf(entries) ==
    [indices |-> [name \in {entries[i].name : i \in 1..Len(entries)} |->
                     (CHOOSE i \in 1..Len(entries) : entries[i].name = name)
                     - 1],
     nodes |-> [i \in 1..Len(entries) |-> entries[i].node],
     data |-> [i \in 1..Len(entries) |-> entries[i].arity]]

\* A compiled root carries the index insert_node reserved for its name.
Compiled(decls, kind) ==
    [i \in 1..Len(OfKind(decls, kind)) |->
        [OfKind(decls, kind)[i] EXCEPT !.node.index = i - 1]]

HostRegs ==
    << Reg("Global", "$global", "$global", 0),
       Reg("Effect", "emit-value", "emit-value", 1),
       Reg("Effect", "emit-sum", "emit-sum", 1),
       Reg("Cond", "is-state", "is-state", 1),
       Reg("Cond", "fail", "fail", 0),
       Reg("Query", "nums", "nums", 0) >>

BuilderCompile(decls) ==
    [ids |-> [globals |-> IdMapOf(OfKind(HostRegs, "Global")),
              effects |-> IdMapOf(OfKind(HostRegs, "Effect")),
              conditions |-> IdMapOf(OfKind(HostRegs, "Cond")),
              queries |-> IdMapOf(OfKind(HostRegs, "Query")),
              action_roots |-> IdMapOf(Compiled(decls, "Action")),
              node_roots |-> IdMapOf(Compiled(decls, "Node"))]]

(* ---------------------------------------------------------------------- *)
(* The compiler (src/src/tree/script/compile/produce.rs) over parsed       *)
(* script nodes, and its lexical environment (produce/env.rs).  A step of  *)
(* the compiler returns [ok |-> TRUE, env, ...] or a ScriptError.           *)
(* ---------------------------------------------------------------------- *)
\* Items of a parsed line, by the class parse.rs puts them in.
ItemWildcard == [item |-> "Wildcard"]
ItemVar(name) == [item |-> "Var", name |-> name]
ItemSym(name) == [item |-> "Sym", name |-> name]
ItemInt(n) == [item |-> "Int", int |-> n]
ItemBrackets(items) == [item |-> "Brackets", items |-> items]

ScriptError(kind, detail) == [ok |-> FALSE, error |-> kind, detail |-> detail]

\* Env: the variables in scope, the largest number of them there ever was,
\* and the number of seeds the compilation has drawn.
EnvNew(drawn) == [vars |-> <<>>, max_vars |-> 0, drawn |-> drawn]

Position(vars, var) ==
    IF \E i \in 1..Len(vars) : vars[i] = var
    THEN (CHOOSE i \in 1..Len(vars) :
            vars[i] = var /\ \A j \in 1..(i - 1) : vars[j] # var) - 1
    ELSE NoIndex

EnvDeclareUncounted(ids, env, var) ==
    IF Position(env.vars, var) # NoIndex
    THEN ScriptError("ShadowedLexical", var)
    ELSE IF IdMapFind(ids.globals, var) # -1
    THEN ScriptError("ShadowedGlobal", var)
    ELSE [ok |-> TRUE, index |-> Len(env.vars),
          env |-> [env EXCEPT !.vars = Append(@, var)]]

EnvDeclare(ids, env, var) ==
    IF Position(env.vars, var) # NoIndex
    THEN ScriptError("ShadowedLexical", var)
    ELSE IF IdMapFind(ids.globals, var) # -1
    THEN ScriptError("ShadowedGlobal", var)
    ELSE [ok |-> TRUE, index |-> Len(env.vars),
          env |-> [env EXCEPT !.vars = Append(@, var),
                              !.max_vars = IF Len(env.vars) + 1 > @
                                           THEN Len(env.vars) + 1 ELSE @]]

\* The declarations Env::scope makes before it runs the scope.
RECURSIVE EnvScope(_, _, _, _)
EnvScope(ids, env, vars, i) ==
    IF i > Len(vars) THEN [ok |-> TRUE, env |-> env]
    ELSE IF EnvDeclare(ids, env, vars[i]).ok
    THEN EnvScope(ids, EnvDeclare(ids, env, vars[i]).env, vars, i + 1)
    ELSE EnvDeclare(ids, env, vars[i])

\* The end of Env::scope: the variables are truncated to those of the
\* environment the scope was entered from.
EnvLeave(outer, r) ==
    IF r.ok THEN [r EXCEPT !.env.vars = Truncate(@, Len(outer.vars))] ELSE r

EnvResolvePatternDeclare(ids, env, var) ==
    IF EnvDeclare(ids, env, var).ok
    THEN [ok |-> TRUE, env |-> EnvDeclare(ids, env, var).env,
          pattern |-> PatBind]
    ELSE EnvDeclare(ids, env, var)

EnvResolvePattern(ids, env, var) ==
    IF Position(env.vars, var) # NoIndex
    THEN [ok |-> TRUE, env |-> env,
          pattern |-> PatLexical(Position(env.vars, var))]
    ELSE IF IdSpaceResolve(ids, "Global", var, 0).ok
    THEN [ok |-> TRUE, env |-> env,
          pattern |-> PatGlobal(IdSpaceResolve(ids, "Global", var, 0).index)]
    ELSE [ok |-> TRUE, env |-> EnvDeclare(ids, env, var).env,
          pattern |-> PatBind]

EnvResolve(ids, env, var) ==
    IF Position(env.vars, var) # NoIndex
    THEN [ok |-> TRUE, pv |-> PLexical(Position(env.vars, var))]
    ELSE IF IdSpaceResolve(ids, "Global", var, 0).ok
    THEN [ok |-> TRUE,
          pv |-> PGlobal(IdSpaceResolve(ids, "Global", var, 0).index)]
    ELSE ScriptError("UnboundVariable", var)

RECURSIVE compile_value(_, _, _)
RECURSIVE compile_values(_, _, _, _, _)
compile_value(ids, env, item) ==
    CASE item.item = "Var" -> EnvResolve(ids, env, item.name)
      [] item.item = "Sym" -> [ok |-> TRUE, pv |-> PValue(Symbol(item.name))]
      [] item.item = "Int" -> [ok |-> TRUE, pv |-> PValue(Int_(item.int))]
      [] item.item = "Brackets" ->
            compile_values(ids, env, item.items, 1, <<>>)
      [] OTHER -> ScriptError("UnrecognizedValue", item)

\* compile_values at item i; as the value of a bracket item it is the list
\* of the compiled values.
compile_values(ids, env, items, i, compiled) ==
    IF i > Len(items)
    THEN [ok |-> TRUE, pv |-> PList(compiled), values |-> compiled]
    ELSE IF compile_value(ids, env, items[i]).ok
    THEN compile_values(ids, env, items, i + 1,
                        Append(compiled, compile_value(ids, env, items[i]).pv))
    ELSE compile_value(ids, env, items[i])

RECURSIVE compile_pattern_item(_, _, _)
RECURSIVE compile_pattern_items(_, _, _, _, _)
compile_pattern_item(ids, env, item) ==
    CASE item.item = "Wildcard" ->
            [ok |-> TRUE, env |-> env, pattern |-> PatIgnore]
      [] item.item = "Var" -> EnvResolvePattern(ids, env, item.name)
      [] item.item = "Sym" ->
            [ok |-> TRUE, env |-> env, pattern |-> PatExact(Symbol(item.name))]
      [] item.item = "Int" ->
            [ok |-> TRUE, env |-> env, pattern |-> PatExact(Int_(item.int))]
      [] item.item = "Brackets" ->
            compile_pattern_items(ids, env, item.items, 1, <<>>)
      [] OTHER -> ScriptError("UnrecognizedPattern", item)

\* compile_pattern_items at item i; as the pattern of a bracket item it is
\* the list pattern of the compiled patterns.
compile_pattern_items(ids, env, items, i, compiled) ==
    IF i > Len(items)
    THEN [ok |-> TRUE, env |-> env, pattern |-> PatList(compiled),
          patterns |-> compiled]
    ELSE IF compile_pattern_item(ids, env, items[i]).ok
    THEN compile_pattern_items(
             ids, compile_pattern_item(ids, env, items[i]).env, items, i + 1,
             Append(compiled, compile_pattern_item(ids, env, items[i]).pattern))
    ELSE compile_pattern_item(ids, env, items[i])

\* Parsed script nodes: label directives (do:, select:, none:, visit:),
\* reference statements, match, switch with its cases, query and random
\* directives.
SrcDispatch(keyword, children) ==
    [s |-> "Dispatch", keyword |-> keyword, children |-> children]
SrcRef(class, name, arguments) ==
    [s |-> "Ref", class |-> class, name |-> name, arguments |-> arguments]
SrcMatch(patterns, targets, children) ==
    [s |-> "Match", patterns |-> patterns, targets |-> targets,
     children |-> children]
SrcSwitch(targets, children) ==
    [s |-> "Switch", targets |-> targets, children |-> children]
SrcCase(patterns, children) ==
    [s |-> "Case", patterns |-> patterns, children |-> children]
SrcQuery(keyword, signature, name, arguments, children) ==
    [s |-> "Query", keyword |-> keyword, signature |-> signature,
     name |-> name, arguments |-> arguments, children |-> children]
SrcRandom(any, seeds, children) ==
    [s |-> "Random", any |-> any, seeds |-> seeds, children |-> children]

DispatchOf(keyword) ==
    CASE keyword = "do" -> "Sequence"
      [] keyword = "select" -> "Selection"
      [] keyword = "none" -> "None"
      [] keyword = "visit" -> "Visit"

QueryModeOf(keyword) ==
    CASE keyword = "for-any" -> "Selection"
      [] keyword = "for-every" -> "Sequence"
      [] keyword = "with-first" -> "First"
      [] keyword = "with-last" -> "Last"
      [] keyword = "visit-every" -> "Visit"

convert_id_error(name, error) ==
    ScriptError("Identifier", [name |-> name, error |-> error])

PatternArity(expected, given) ==
    ScriptError("PatternArity", [expected |-> expected, given |-> given])

\* What a directive makes of the compilation r of its children: the node,
\* in the environment the directive was entered from.
Scoped(outer, r, node) ==
    IF r.ok
    THEN EnvLeave(outer, [ok |-> TRUE, env |-> r.env, node |-> node])
    ELSE r

\* The compilation r of a node entered with the environment env: the node
\* is marked with the number of variables that were in scope.
InScope(env, r) ==
    IF r.ok THEN [r EXCEPT !.node = @ @@ [scope |-> Len(env.vars)]] ELSE r

RECURSIVE compile_branch(_, _, _, _)
RECURSIVE compile_branches(_, _, _, _, _, _)
RECURSIVE BranchCompiled(_, _, _, _, _, _)
RECURSIVE SwitchCases(_, _, _, _, _, _)
RECURSIVE SwitchCase(_, _, _, _, _, _, _)

\* compile_branches at node i, and what it does with the compilation r of
\* that node.
compile_branches(ids, rnd, env, nodes, i, compiled) ==
    IF i > Len(nodes) THEN [ok |-> TRUE, env |-> env, nodes |-> compiled]
    ELSE BranchCompiled(ids, rnd, nodes, i, compiled,
                        compile_branch(ids, rnd, env, nodes[i]))

BranchCompiled(ids, rnd, nodes, i, compiled, r) ==
    IF r.ok
    THEN compile_branches(ids, rnd, r.env, nodes, i + 1,
                          Append(compiled, r.node))
    ELSE r

Dispatching(dispatch, r) ==
    IF r.ok
    THEN [ok |-> TRUE, env |-> r.env, node |-> NodeDispatch(dispatch, r.nodes)]
    ELSE r

try_compile_branch_dispatch(ids, rnd, env, node) ==
    Dispatching(DispatchOf(node.keyword),
                compile_branches(ids, rnd, env, node.children, 1, <<>>))

try_compile_branch_ref(ids, env, node) ==
    LET node_ref == IdSpaceResolveRef(ids, node.name, Len(node.arguments))
        arguments == compile_values(ids, env, node.arguments, 1, <<>>)
    IN IF ~node_ref.ok THEN convert_id_error(node.name, node_ref)
       ELSE IF ~arguments.ok THEN arguments
       ELSE [ok |-> TRUE, env |-> env,
             node |-> NodeRef(RefIdx(node_ref.kind, node_ref.index),
                              IF node.class = "Query" THEN "Query"
                              ELSE "Inherit",
                              arguments.values)]

MatchCompiled(outer, targets, patterns, r) ==
    IF r.ok THEN Scoped(outer, r, NodeMatch(targets, patterns, r.nodes))
    ELSE r

\* The scope of a match directive or of a switch case: targets, patterns,
\* then the children in the environment the patterns left.
MatchScope(ids, rnd, env, targets, patterns, children) ==
    LET t == compile_values(ids, env, targets, 1, <<>>)
        p == compile_pattern_items(ids, env, patterns, 1, <<>>)
    IN IF ~t.ok THEN t
       ELSE IF ~p.ok THEN p
       ELSE MatchCompiled(env, t.values, p.patterns,
                      compile_branches(ids, rnd, p.env, children, 1, <<>>))

try_compile_branch_match_unchecked(ids, rnd, env, node) ==
    MatchScope(ids, rnd, env, node.targets, node.patterns, node.children)

try_compile_branch_match(ids, rnd, env, node) ==
    IF Len(node.targets) # Len(node.patterns)
    THEN PatternArity(Len(node.targets), Len(node.patterns))
    ELSE MatchScope(ids, rnd, env, node.targets, node.patterns,
                    node.children)

\* The loop of try_compile_branch_switch at child i, and what it does with
\* the compilation r of that case.
SwitchCases(ids, rnd, env, node, i, cases) ==
    IF i > Len(node.children)
    THEN [ok |-> TRUE, env |-> env, node |-> NodeDispatch("Selection", cases)]
    ELSE IF node.children[i].s # "Case"
    THEN ScriptError("InvalidSwitchCase", i)
    ELSE IF Len(node.targets) # Len(node.children[i].patterns)
    THEN PatternArity(Len(node.targets), Len(node.children[i].patterns))
    ELSE SwitchCase(ids, rnd, env, node, i, cases,
                    MatchScope(ids, rnd, env, node.targets,
                               node.children[i].patterns,
                               node.children[i].children))

SwitchCase(ids, rnd, env, node, i, cases, r) ==
    IF r.ok
    THEN SwitchCases(ids, rnd, r.env, node, i + 1, Append(cases, r.node))
    ELSE r

try_compile_branch_switch(ids, rnd, env, node) ==
    SwitchCases(ids, rnd, env, node, 1, <<>>)

Querying(outer, pattern, index, arguments, mode, r) ==
    IF r.ok
    THEN Scoped(outer, r,
                   NodeQuery(pattern, index, arguments, mode, r.nodes))
    ELSE r

try_compile_branch_query(ids, rnd, env, node) ==
    LET index == IdSpaceResolve(ids, "Query", node.name, Len(node.arguments))
        arguments == compile_values(ids, env, node.arguments, 1, <<>>)
        pattern == compile_pattern_item(ids, env, node.signature[1])
    IN IF Len(node.signature) # 1
       THEN ScriptError("DirectiveSignatureArity",
                        [expected |-> 1, given |-> Len(node.signature)])
       ELSE IF ~index.ok THEN convert_id_error(node.name, index)
       ELSE IF ~arguments.ok THEN arguments
       ELSE IF ~pattern.ok THEN pattern
       ELSE Querying(env, pattern.pattern, index.index, arguments.values,
                     QueryModeOf(node.keyword),
                     compile_branches(ids, rnd, pattern.env, node.children,
                                      1, <<>>))

\* The seed references of a random directive, resolved in order.
RECURSIVE ResolveSeeds(_, _, _, _)
ResolveSeeds(ids, seeds, i, ctx_seeds) ==
    IF i > Len(seeds) THEN [ok |-> TRUE, ctx_seeds |-> ctx_seeds]
    ELSE IF seeds[i].item # "Sym" THEN ScriptError("InvalidSeedRef", i)
    ELSE IF ~IdSpaceResolve(ids, "Global", seeds[i].name, 0).ok
    THEN convert_id_error(seeds[i].name,
                          IdSpaceResolve(ids, "Global", seeds[i].name, 0))
    ELSE ResolveSeeds(ids, seeds, i + 1,
             Append(ctx_seeds,
                    IdSpaceResolve(ids, "Global", seeds[i].name, 0).index))

\* fastrand::u64(..) at the end of try_compile_branch_random: the seed is
\* the next draw of the compilation.
Randomizing(rnd, ctx_seeds, any, r) ==
    IF r.ok
    THEN [ok |-> TRUE, env |-> [r.env EXCEPT !.drawn = @ + 1],
          node |-> NodeRandom(rnd[r.env.drawn + 1], ctx_seeds, r.nodes, any)]
    ELSE r

try_compile_branch_random(ids, rnd, env, node) ==
    IF ~ResolveSeeds(ids, node.seeds, 1, <<>>).ok
    THEN ResolveSeeds(ids, node.seeds, 1, <<>>)
    ELSE Randomizing(rnd, ResolveSeeds(ids, node.seeds, 1, <<>>).ctx_seeds,
                     node.any,
                     compile_branches(ids, rnd, env, node.children, 1, <<>>))

compile_branch(ids, rnd, env, node) ==
    InScope(env,
    CASE node.s = "Dispatch" -> try_compile_branch_dispatch(ids, rnd, env, node)
      [] node.s = "Ref" -> try_compile_branch_ref(ids, env, node)
      [] node.s = "Match" -> try_compile_branch_match(ids, rnd, env, node)
      [] node.s = "Switch" -> try_compile_branch_switch(ids, rnd, env, node)
      [] node.s = "Query" -> try_compile_branch_query(ids, rnd, env, node)
      [] node.s = "Random" -> try_compile_branch_random(ids, rnd, env, node)
      [] OTHER -> ScriptError("UnrecognizedNode", node.s))

RECURSIVE compile_effects(_, _, _, _, _)
compile_effect(ids, env, node) ==
    LET index == IdSpaceResolve(ids, "Effect", node.name, Len(node.arguments))
        arguments == compile_values(ids, env, node.arguments, 1, <<>>)
    IN IF node.s # "Ref" \/ node.class # "Raw"
       THEN ScriptError("InvalidEffectRef", node.s)
       ELSE IF ~index.ok THEN convert_id_error(node.name, index)
       ELSE IF ~arguments.ok THEN arguments
       ELSE [ok |-> TRUE, effect |-> <<index.index, arguments.values>>]

compile_effects(ids, env, nodes, i, compiled) ==
    IF i > Len(nodes) THEN [ok |-> TRUE, effects |-> compiled]
    ELSE IF compile_effect(ids, env, nodes[i]).ok
    THEN compile_effects(ids, env, nodes, i + 1,
                         Append(compiled,
                                compile_effect(ids, env, nodes[i]).effect))
    ELSE compile_effect(ids, env, nodes[i])

\* Root declarations as parse_root_declaration leaves them, and the label
\* directives of an action declaration.
Decl(kind, name, parameters, children) ==
    [kind |-> kind, name |-> name, parameters |-> parameters,
     children |-> children]
SrcLabel(keyword, children) ==
    [s |-> "Label", keyword |-> keyword, children |-> children]

NodeRootCompiled(index, r) ==
    IF r.ok
    THEN [ok |-> TRUE, drawn |-> r.env.drawn,
          root |-> NodeRoot(index, NodeDispatch("Sequence", r.nodes),
                            r.env.max_vars)]
    ELSE r

compile_node_root(ids, rnd, drawn, index, parameters, children) ==
    LET env == EnvScope(ids, EnvNew(drawn), parameters, 1) IN
    IF ~env.ok THEN env
    ELSE NodeRootCompiled(index,
             compile_branches(ids, rnd, env.env, children, 1, <<>>))

\* The children of the label directives of one keyword, in order.
RECURSIVE Collection(_, _, _)
Collection(children, keyword, i) ==
    IF i > Len(children) THEN <<>>
    ELSE (IF children[i].keyword = keyword THEN children[i].children
          ELSE <<>>) \o Collection(children, keyword, i + 1)

ActionLabels == {"conditions", "effects", "discovery"}

\* compile_action_root after the discovery nodes d and after the
\* conditions c, which are compiled with the parameters in scope.
ActionRootCompiled(ids, index, children, d, c) ==
    LET effects == compile_effects(ids, c.env,
                                   Collection(children, "effects", 1), 1, <<>>)
    IN IF ~c.ok THEN c
       ELSE IF ~effects.ok THEN effects
       ELSE [ok |-> TRUE, drawn |-> c.env.drawn,
             root |-> ActionRoot(index, effects.effects, <<>>, c.nodes,
                                 d.nodes, c.env.max_vars)]

ActionDiscoveryCompiled(ids, rnd, index, parameters, children, d) ==
    IF ~d.ok THEN d
    ELSE IF ~EnvScope(ids, d.env, parameters, 1).ok
    THEN EnvScope(ids, d.env, parameters, 1)
    ELSE ActionRootCompiled(ids, index, children, d,
             compile_branches(ids, rnd, EnvScope(ids, d.env, parameters, 1).env,
                              Collection(children, "conditions", 1), 1, <<>>))

compile_action_root(ids, rnd, drawn, index, parameters, children) ==
    IF \E i \in 1..Len(children) :
          children[i].s # "Label" \/ children[i].keyword \notin ActionLabels
    THEN ScriptError("UnrecognizedActionDirective", index)
    ELSE ActionDiscoveryCompiled(ids, rnd, index, parameters, children,
             compile_branches(ids, rnd, EnvNew(drawn),
                              Collection(children, "discovery", 1), 1, <<>>))

compile_root_declaration(ids, rnd, drawn, decl, index) ==
    IF decl.kind = "Node"
    THEN compile_node_root(ids, rnd, drawn, index, decl.parameters,
                           decl.children)
    ELSE compile_action_root(ids, rnd, drawn, index, decl.parameters,
                             decl.children)

\* Compiler::insert for every declaration of a source: each name is
\* reserved in the identifier space with a placeholder root and the number
\* of its parameters; a name that is already taken is a Conflict.
RECURSIVE CompilerInsert(_, _, _)
CompilerInserted(ids, decls, i, set) ==
    IF set.ok THEN CompilerInsert(set.ids, decls, i + 1)
    ELSE ScriptError("Conflict", decls[i].name)

CompilerInsert(ids, decls, i) ==
    IF i > Len(decls) THEN [ok |-> TRUE, ids |-> ids]
    ELSE CompilerInserted(ids, decls, i,
             IdSpaceSet(ids, decls[i].kind, decls[i].name,
                        IF decls[i].kind = "Action" THEN ActionRootDefault
                        ELSE NodeRootDefault,
                        Len(decls[i].parameters)))

\* Compiler::load for every source handed to the builder, in order.
RECURSIVE CompilerLoad(_, _, _)
CompilerLoaded(sources, s, r) ==
    IF r.ok THEN CompilerLoad(r.ids, sources, s + 1) ELSE r

CompilerLoad(ids, sources, s) ==
    IF s > Len(sources) THEN [ok |-> TRUE, ids |-> ids]
    ELSE CompilerLoaded(sources, s, CompilerInsert(ids, sources[s], 1))

\* The declarations the compiler holds after loading the sources, and the
\* orders in which its map of declarations may yield them: here the order
\* of declaration and its reverse.
RECURSIVE Declarations(_, _)
Declarations(sources, s) ==
    IF s > Len(sources) THEN <<>>
    ELSE sources[s] \o Declarations(sources, s + 1)

Reversed(decls) == [i \in 1..Len(decls) |-> decls[Len(decls) + 1 - i]]
Yielded(decls, reverse) == IF reverse THEN Reversed(decls) ELSE decls

\* Compiler::compile: every declaration is compiled against the identifier
\* space that holds all reserved names, and its root is set at its index.
RECURSIVE CompilerCompile(_, _, _, _, _)
CompilerCompiledUnset(ids, rnd, decls, i, r) ==
    IF r.ok THEN CompilerCompile(ids, rnd, r.drawn, decls, i + 1) ELSE r

CompilerCompiled(ids, rnd, decls, i, r) ==
    IF r.ok
    THEN CompilerCompile(
             IdSpaceSetNode(ids, decls[i].kind,
                            IdMapFind(id_map(ids, decls[i].kind), decls[i].name),
                            r.root),
             rnd, r.drawn, decls, i + 1)
    ELSE r

CompilerCompile(ids, rnd, drawn, decls, i) ==
    IF i > Len(decls) THEN [ok |-> TRUE, ids |-> ids]
    ELSE CompilerCompiled(ids, rnd, decls, i,
             compile_root_declaration(
                 ids, rnd, drawn, decls[i],
                 IdMapFind(id_map(ids, decls[i].kind), decls[i].name)))

\* BehaviorTreeBuilder::compile of the sources on the host's builder: all
\* of them are loaded, then the declarations are compiled.
BuilderCompiled(loaded, rnd, decls) ==
    IF loaded.ok THEN CompilerCompile(loaded.ids, rnd, 0, decls, 1)
    ELSE loaded

BuilderCompileSources(ids, sources, rnd, reverse) ==
    BuilderCompiled(CompilerLoad(ids, sources, 1), rnd,
                    Yielded(Declarations(sources, 1), reverse))

\* BehaviorTreeBuilder::compile_str of one source on the host's builder.
compile_str(ids, decls, rnd) ==
    BuilderCompileSources(ids, <<decls>>, rnd, FALSE)

(* ---------------------------------------------------------------------- *)
(* Scripts, written as the roots the compiler produces for them.           *)
(* ---------------------------------------------------------------------- *)
Do(nodes) == NodeDispatch("Sequence", nodes)
Select(nodes) == NodeDispatch("Selection", nodes)
NoneOf(nodes) == NodeDispatch("None", nodes)
Visit(nodes) == NodeDispatch("Visit", nodes)
CallCond(index, mode, arguments) ==
    NodeRef(RefIdx("Cond", index), mode, arguments)
CallAction(index, mode, arguments) ==
    NodeRef(RefIdx("Action", index), mode, arguments)
CallNode(index, mode, arguments) ==
    NodeRef(RefIdx("Node", index), mode, arguments)
IsState(pv) == CallCond(0, "Inherit", <<pv>>)
Fail == CallCond(1, "Inherit", <<>>)
EmitValue(pv) == <<0, <<pv>>>>
EmitSum(pv) == <<1, <<pv>>>>
One == PValue(Int_(1))
Two == PValue(Int_(2))

\* action: emit $v          effects: emit-value $v
\* node: test $a            select: (do: is-state $a, emit 1)
\*                                  (do: is-state 1, emit 2)
\* node: seq $a             is-state $a, is-state 1
\* node: nor $a             none: is-state $a, emit $a
\* node: empties            visit: do:, select:, none:, visit:
\* node: act-seq $a         emit $a, is-state $a
\* node: both $a            visit: emit $a, emit? $a, seq $a
DispatchScript ==
    << [kind |-> "Action", name |-> "emit", arity |-> 1,
        node |-> ActionRoot(0, <<EmitValue(PLexical(0))>>, <<>>, <<>>,
                            <<>>, 1)],
       [kind |-> "Node", name |-> "test", arity |-> 1,
        node |-> NodeRoot(0, Do(<<
            Select(<< Do(<<IsState(PLexical(0)),
                           CallAction(0, "Inherit", <<One>>)>>),
                      Do(<<IsState(One),
                           CallAction(0, "Inherit", <<Two>>)>>) >>) >>), 1)],
       [kind |-> "Node", name |-> "seq", arity |-> 1,
        node |-> NodeRoot(0, Do(<<IsState(PLexical(0)), IsState(One)>>), 1)],
       [kind |-> "Node", name |-> "nor", arity |-> 1,
        node |-> NodeRoot(0, Do(<<
            NoneOf(<<IsState(PLexical(0)),
                     CallAction(0, "Inherit", <<PLexical(0)>>)>>) >>), 1)],
       [kind |-> "Node", name |-> "empties", arity |-> 0,
        node |-> NodeRoot(0, Do(<<
            Visit(<<Do(<<>>), Select(<<>>), NoneOf(<<>>),
                    Visit(<<>>)>>) >>), 0)],
       [kind |-> "Node", name |-> "act-seq", arity |-> 1,
        node |-> NodeRoot(0, Do(<<CallAction(0, "Inherit", <<PLexical(0)>>),
                                  IsState(PLexical(0))>>), 1)],
       [kind |-> "Node", name |-> "both", arity |-> 1,
        node |-> NodeRoot(0, Do(<<
            Visit(<<CallAction(0, "Inherit", <<PLexical(0)>>),
                    CallAction(0, "Query", <<PLexical(0)>>),
                    CallNode(1, "Inherit", <<PLexical(0)>>)>>) >>), 1)] >>

\* action: success $value   effects: emit-value $value
\* action: failure          conditions: fail
\* action: required $value  inherit: success $value
\*                          effects: emit-value 2
\* action: twice $value     inherit: success $value, success $value
\*                          effects: emit-sum $value
\* action: req-failure      inherit: failure      effects: emit-value 2
\* action: chain $value     inherit: required $value, success 1
\*                          effects: emit-value $global, emit-value $value
\* node: pick $value        select: req-failure, chain $value
InheritScript ==
    << [kind |-> "Action", name |-> "success", arity |-> 1,
        node |-> ActionRoot(0, <<EmitValue(PLexical(0))>>, <<>>, <<>>,
                            <<>>, 1)],
       [kind |-> "Action", name |-> "failure", arity |-> 0,
        node |-> ActionRoot(0, <<>>, <<>>, <<Fail>>, <<>>, 0)],
       [kind |-> "Action", name |-> "required", arity |-> 1,
        node |-> ActionRoot(0, <<EmitValue(Two)>>,
                            <<CallAction(0, "Inherit", <<PLexical(0)>>)>>,
                            <<>>, <<>>, 1)],
       [kind |-> "Action", name |-> "twice", arity |-> 1,
        node |-> ActionRoot(0, <<EmitSum(PLexical(0))>>,
                            <<CallAction(0, "Inherit", <<PLexical(0)>>),
                              CallAction(0, "Inherit", <<PLexical(0)>>)>>,
                            <<>>, <<>>, 1)],
       [kind |-> "Action", name |-> "req-failure", arity |-> 0,
        node |-> ActionRoot(0, <<EmitValue(Two)>>,
                            <<CallAction(1, "Inherit", <<>>)>>,
                            <<>>, <<>>, 0)],
       [kind |-> "Action", name |-> "chain", arity |-> 1,
        node |-> ActionRoot(0, <<EmitValue(PGlobal(0)),
                                 EmitValue(PLexical(0))>>,
                            <<CallAction(2, "Inherit", <<PLexical(0)>>),
                              CallAction(0, "Inherit", <<One>>)>>,
                            <<>>, <<>>, 1)],
       [kind |-> "Node", name |-> "pick", arity |-> 1,
        node |-> NodeRoot(0, Do(<<
            Select(<<CallAction(4, "Inherit", <<>>),
                     CallAction(5, "Inherit", <<PLexical(0)>>)>>) >>), 1)] >>

\* action: test $value      discovery: visit-every $n: nums -> test $n
\*                          effects: emit-sum $value
\* action: other $value     discovery: visit-every $n: nums
\*                                       -> visit: test $n, other $n
\*                          effects: emit-value $value
DiscoveryScript ==
    << [kind |-> "Action", name |-> "test", arity |-> 1,
        node |-> ActionRoot(0, <<EmitSum(PLexical(0))>>, <<>>, <<>>,
                            <<NodeQuery(PatBind, 0, <<>>, "Visit",
                                <<CallAction(0, "Inherit",
                                             <<PLexical(0)>>)>>)>>, 1)],
       [kind |-> "Action", name |-> "other", arity |-> 1,
        node |-> ActionRoot(0, <<EmitValue(PLexical(0))>>, <<>>, <<>>,
                            <<NodeQuery(PatBind, 0, <<>>, "Visit",
                                <<Visit(<<
                                    CallAction(0, "Inherit", <<PLexical(0)>>),
                                    CallAction(1, "Inherit", <<PLexical(0)>>)
                                  >>)>>)>>, 1)] >>

\* The two roots of one query mode: over every value, and over the values
\* equal to the parameter.
QueryNodes(mode, name) ==
    << [kind |-> "Node", name |-> name, arity |-> 0,
        node |-> NodeRoot(0, Do(<<
            NodeQuery(PatBind, 0, <<>>, mode,
                      <<IsState(PLexical(0))>>) >>), 1)],
       [kind |-> "Node", name |-> name \o "-eq", arity |-> 1,
        node |-> NodeRoot(0, Do(<<
            NodeQuery(PatLexical(0), 0, <<>>, mode,
                      <<Select(<<IsState(PLexical(0)),
                                 CallAction(0, "Inherit",
                                            <<PLexical(0)>>)>>)>>) >>), 1)] >>

\* action: offer $v        effects: emit-value $v
\*                         discovery: with-last $n: nums -> offer $n
\* action: plan $v         effects: emit-sum $v
\*                         discovery: visit: plan 1, fail, plan 2, plan 1
\* node: every             for-every $n: nums -> is-state $n
\* node: every-eq $a       for-every $a: nums -> select: is-state $a, offer $a
\* node: first, first-eq $a, last, last-eq $a
\*                         the same under with-first and with-last
\* node: tour $a           visit: offer $a, fail, is-state $a, offer 2
QueryScript ==
    << [kind |-> "Action", name |-> "offer", arity |-> 1,
        node |-> ActionRoot(0, <<EmitValue(PLexical(0))>>, <<>>, <<>>,
                            <<NodeQuery(PatBind, 0, <<>>, "Last",
                                <<CallAction(0, "Inherit",
                                             <<PLexical(0)>>)>>)>>, 1)],
       [kind |-> "Action", name |-> "plan", arity |-> 1,
        node |-> ActionRoot(0, <<EmitSum(PLexical(0))>>, <<>>, <<>>,
                            <<Visit(<<CallAction(1, "Inherit", <<One>>),
                                      Fail,
                                      CallAction(1, "Inherit", <<Two>>),
                                      CallAction(1, "Inherit", <<One>>)>>)>>,
                            1)],
       [kind |-> "Node", name |-> "tour", arity |-> 1,
        node |-> NodeRoot(0, Do(<<
            Visit(<<CallAction(0, "Inherit", <<PLexical(0)>>),
                    Fail,
                    IsState(PLexical(0)),
                    CallAction(0, "Inherit", <<Two>>)>>) >>), 1)] >>
    \o QueryNodes("Sequence", "every")
    \o QueryNodes("First", "first")
    \o QueryNodes("Last", "last")

\* Sources, as the parser hands them to the compiler.
SrcCall(name, arguments) == SrcRef("Raw", name, arguments)

\* action: go $v           effects: emit-value $v
\* node: pick              random: go 1, go 2
\* node: any $a            any-random turn: go $a, is-state $a, go 2
RandomSource ==
    << Decl("Action", "go", <<"$v">>,
            <<SrcLabel("effects",
                       <<SrcCall("emit-value", <<ItemVar("$v")>>)>>)>>),
       Decl("Node", "pick", <<>>,
            <<SrcRandom(FALSE, <<>>,
                        <<SrcCall("go", <<ItemInt(1)>>),
                          SrcCall("go", <<ItemInt(2)>>)>>)>>),
       Decl("Node", "any", <<"$a">>,
            <<SrcRandom(TRUE, <<ItemSym("turn")>>,
                        <<SrcCall("go", <<ItemVar("$a")>>),
                          SrcCall("is-state", <<ItemVar("$a")>>),
                          SrcCall("go", <<ItemInt(2)>>)>>)>>) >>

\* action: mark $v     effects: emit-value $v
\* action: guarded $v  conditions: is-state 1
\*                     effects: emit-value $v, emit-sum $v, emit-value 2
\*                     inherit: mark $v
\* action: sly $v      conditions: mark $v      effects: emit-value $v
\*                     discovery: sly 1
\* action: heir $v     inherit: sly $v          effects: emit-value 0
\*                     discovery: heir 2
\* action: scout $v   effects: emit-value $v   discovery: spy 1
\* action: spy $v     effects: emit-value $v   discovery: spy 1
\* node: loop $a       loop $a
\* node: ping $a       select: pong $a, is-state $a
\* node: pong $a       ping $a
\* node: ask $a        mark? $a
\* node: via $a        mark $a
\* node: deep $a       visit: via? $a, via $a
\* node: cond $a       cond: (mark $a -> is-state 1)
\* node: pick $a       cond: (is-state $a -> mark 1) (is-state 1 -> mark 2)
\*                           else mark 0
\* node: both $a       select: guarded? $a, mark? $a
RefScript ==
    << [kind |-> "Action", name |-> "mark", arity |-> 1,
        node |-> ActionRoot(0, <<EmitValue(PLexical(0))>>, <<>>, <<>>,
                            <<>>, 1)],
       [kind |-> "Action", name |-> "guarded", arity |-> 1,
        node |-> ActionRoot(0, <<EmitValue(PLexical(0)),
                                 EmitSum(PLexical(0)), EmitValue(Two)>>,
                            <<CallAction(0, "Inherit", <<PLexical(0)>>)>>,
                            <<IsState(One)>>, <<>>, 1)],
       [kind |-> "Action", name |-> "sly", arity |-> 1,
        node |-> ActionRoot(0, <<EmitValue(PLexical(0))>>, <<>>,
                            <<CallAction(0, "Inherit", <<PLexical(0)>>)>>,
                            <<CallAction(2, "Inherit", <<One>>)>>, 1)],
       [kind |-> "Action", name |-> "heir", arity |-> 1,
        node |-> ActionRoot(0, <<EmitValue(PValue(Int_(0)))>>,
                            <<CallAction(2, "Inherit", <<PLexical(0)>>)>>,
                            <<>>,
                            <<CallAction(3, "Inherit", <<Two>>)>>, 1)],
       [kind |-> "Action", name |-> "scout", arity |-> 1,
        node |-> ActionRoot(0, <<EmitValue(PLexical(0))>>, <<>>, <<>>,
                            <<CallAction(5, "Inherit", <<One>>)>>, 1)],
       [kind |-> "Action", name |-> "spy", arity |-> 1,
        node |-> ActionRoot(0, <<EmitValue(PLexical(0))>>, <<>>, <<>>,
                            <<CallAction(5, "Inherit", <<One>>)>>, 1)],
       [kind |-> "Node", name |-> "loop", arity |-> 1,
        node |-> NodeRoot(0, Do(<<CallNode(0, "Inherit",
                                           <<PLexical(0)>>)>>), 1)],
       [kind |-> "Node", name |-> "ping", arity |-> 1,
        node |-> NodeRoot(0, Do(<<
            Select(<<CallNode(2, "Inherit", <<PLexical(0)>>),
                     IsState(PLexical(0))>>) >>), 1)],
       [kind |-> "Node", name |-> "pong", arity |-> 1,
        node |-> NodeRoot(0, Do(<<CallNode(1, "Inherit",
                                           <<PLexical(0)>>)>>), 1)],
       [kind |-> "Node", name |-> "ask", arity |-> 1,
        node |-> NodeRoot(0, Do(<<CallAction(0, "Query",
                                             <<PLexical(0)>>)>>), 1)],
       [kind |-> "Node", name |-> "via", arity |-> 1,
        node |-> NodeRoot(0, Do(<<CallAction(0, "Inherit",
                                             <<PLexical(0)>>)>>), 1)],
       [kind |-> "Node", name |-> "deep", arity |-> 1,
        node |-> NodeRoot(0, Do(<<
            Visit(<<CallNode(4, "Query", <<PLexical(0)>>),
                    CallNode(4, "Inherit", <<PLexical(0)>>)>>) >>), 1)],
       [kind |-> "Node", name |-> "cond", arity |-> 1,
        node |-> NodeRoot(0, Do(<<
            NodeCond(<< <<CallAction(0, "Inherit", <<PLexical(0)>>),
                          IsState(One)>> >>, <<>>) >>), 1)],
       [kind |-> "Node", name |-> "pick", arity |-> 1,
        node |-> NodeRoot(0, Do(<<
            NodeCond(<< <<IsState(PLexical(0)),
                          CallAction(0, "Inherit", <<One>>)>>,
                        <<IsState(One),
                          CallAction(0, "Inherit", <<Two>>)>> >>,
                     <<CallAction(0, "Inherit",
                                  <<PValue(Int_(0))>>)>>) >>), 1)],
       [kind |-> "Node", name |-> "both", arity |-> 1,
        node |-> NodeRoot(0, Do(<<
            Select(<<CallAction(1, "Query", <<PLexical(0)>>),
                     CallAction(0, "Query", <<PLexical(0)>>)>>) >>), 1)] >>

\* node: t $a / match $a: $a / is-state $a
ShadowSource ==
    << Decl("Node", "t", <<"$a">>,
            <<SrcMatch(<<ItemVar("$a")>>, <<ItemVar("$a")>>,
                       <<SrcCall("is-state", <<ItemVar("$a")>>)>>)>>) >>

\* node: t $a $a
DupSource ==
    << Decl("Node", "t", <<"$a", "$a">>,
            <<SrcCall("is-state", <<ItemVar("$a")>>)>>) >>

\* node: t $a / match $x $y: $a
ArityMatchSource ==
    << Decl("Node", "t", <<"$a">>,
            <<SrcMatch(<<ItemVar("$x"), ItemVar("$y")>>, <<ItemVar("$a")>>,
                       <<SrcCall("is-state", <<ItemVar("$x")>>)>>)>>) >>

\* node: t $a / switch $a: / case 0: (is-state 0) / case 1 2: (is-state 1)
ArityCaseSource ==
    << Decl("Node", "t", <<"$a">>,
            <<SrcSwitch(<<ItemVar("$a")>>,
                <<SrcCase(<<ItemInt(0)>>,
                          <<SrcCall("is-state", <<ItemInt(0)>>)>>),
                  SrcCase(<<ItemInt(1), ItemInt(2)>>,
                          <<SrcCall("is-state", <<ItemInt(1)>>)>>)>>)>>) >>

\* The pattern roots, one parameter each:
\*   quad:  match [$x $ $y $x]: [$a 9 $global 1]     then is-state $y
\*   same:  match [$a $global $ 1]: [$a $a wrong 1]  then is-state $a
\*   nest:  match [[$x $a] $x]: [[0 $a] $a]          then is-state $x
\*   short: match [$x $y]: [$a]
\*   flat:  match [$x]: $a
\*   part:  match [$x $y $x]: [1 $a 0]
\*   sw:    switch $a [$a 1]: / case 0 $l / case $x [$y $x]
\*   act:   an action that binds variables in its discovery and conditions
\*   frames: select: / match [$x $y 9]: [1 $a 0] (is-state $x)
\*                   / for-any $n: nums (match $m: $n (is-state $m))
\*                   / is-state $a
PatternSource ==
    << Decl("Node", "quad", <<"$a">>,
            <<SrcMatch(
                <<ItemBrackets(<<ItemVar("$x"), ItemWildcard, ItemVar("$y"),
                                 ItemVar("$x")>>)>>,
                <<ItemBrackets(<<ItemVar("$a"), ItemInt(9),
                                 ItemVar("$global"), ItemInt(1)>>)>>,
                <<SrcCall("is-state", <<ItemVar("$y")>>)>>)>>),
       Decl("Node", "same", <<"$a">>,
            <<SrcMatch(
                <<ItemBrackets(<<ItemVar("$a"), ItemVar("$global"),
                                 ItemWildcard, ItemInt(1)>>)>>,
                <<ItemBrackets(<<ItemVar("$a"), ItemVar("$a"),
                                 ItemSym("wrong"), ItemInt(1)>>)>>,
                <<SrcCall("is-state", <<ItemVar("$a")>>)>>)>>),
       Decl("Node", "nest", <<"$a">>,
            <<SrcMatch(
                <<ItemBrackets(<<ItemBrackets(<<ItemVar("$x"),
                                                ItemVar("$a")>>),
                                 ItemVar("$x")>>)>>,
                <<ItemBrackets(<<ItemBrackets(<<ItemInt(0), ItemVar("$a")>>),
                                 ItemVar("$a")>>)>>,
                <<SrcCall("is-state", <<ItemVar("$x")>>)>>)>>),
       Decl("Node", "short", <<"$a">>,
            <<SrcMatch(
                <<ItemBrackets(<<ItemVar("$x"), ItemVar("$y")>>)>>,
                <<ItemBrackets(<<ItemVar("$a")>>)>>,
                <<SrcCall("is-state", <<ItemVar("$x")>>)>>)>>),
       Decl("Node", "flat", <<"$a">>,
            <<SrcMatch(
                <<ItemBrackets(<<ItemVar("$x")>>)>>,
                <<ItemVar("$a")>>,
                <<SrcCall("is-state", <<ItemVar("$x")>>)>>)>>),
       Decl("Node", "part", <<"$a">>,
            <<SrcMatch(
                <<ItemBrackets(<<ItemVar("$x"), ItemVar("$y"),
                                 ItemVar("$x")>>)>>,
                <<ItemBrackets(<<ItemInt(1), ItemVar("$a"), ItemInt(0)>>)>>,
                <<SrcCall("is-state", <<ItemVar("$y")>>)>>)>>),
       Decl("Node", "sw", <<"$a">>,
            <<SrcSwitch(
                <<ItemVar("$a"),
                  ItemBrackets(<<ItemVar("$a"), ItemInt(1)>>)>>,
                <<SrcCase(<<ItemInt(0), ItemVar("$l")>>,
                          <<SrcCall("is-state", <<ItemInt(1)>>)>>),
                  SrcCase(<<ItemVar("$x"),
                            ItemBrackets(<<ItemVar("$y"), ItemVar("$x")>>)>>,
                          <<SrcCall("is-state", <<ItemVar("$y")>>)>>)>>)>>),
       Decl("Action", "act", <<"$v">>,
            <<SrcLabel("discovery",
                <<SrcQuery("for-every", <<ItemVar("$n")>>, "nums", <<>>,
                    <<SrcMatch(
                        <<ItemBrackets(<<ItemVar("$p"), ItemVar("$q")>>)>>,
                        <<ItemBrackets(<<ItemVar("$n"), ItemVar("$n")>>)>>,
                        <<SrcCall("act", <<ItemVar("$p")>>)>>)>>)>>),
              SrcLabel("conditions",
                <<SrcMatch(<<ItemVar("$w")>>, <<ItemVar("$v")>>,
                           <<SrcCall("is-state", <<ItemVar("$w")>>)>>)>>),
              SrcLabel("effects",
                <<SrcCall("emit-value", <<ItemVar("$v")>>)>>)>>),
       Decl("Node", "frames", <<"$a">>,
            <<SrcDispatch("select",
                <<SrcMatch(
                    <<ItemBrackets(<<ItemVar("$x"), ItemVar("$y"),
                                     ItemInt(9)>>)>>,
                    <<ItemBrackets(<<ItemInt(1), ItemVar("$a"),
                                     ItemInt(0)>>)>>,
                    <<SrcCall("is-state", <<ItemVar("$x")>>)>>),
                  SrcQuery("for-any", <<ItemVar("$n")>>, "nums", <<>>,
                    <<SrcMatch(<<ItemVar("$m")>>, <<ItemVar("$n")>>,
                        <<SrcCall("is-state", <<ItemVar("$m")>>)>>)>>),
                  SrcCall("is-state", <<ItemVar("$a")>>)>>)>>) >>

\* node: first $a     later $a / go $a
\* node: later $a     is-state $a
\* action: go $v      effects: emit-value $v
ForwardSource ==
    << Decl("Node", "first", <<"$a">>,
            <<SrcCall("later", <<ItemVar("$a")>>),
              SrcCall("go", <<ItemVar("$a")>>)>>),
       Decl("Node", "later", <<"$a">>,
            <<SrcCall("is-state", <<ItemVar("$a")>>)>>),
       Decl("Action", "go", <<"$v">>,
            <<SrcLabel("effects",
                <<SrcCall("emit-value", <<ItemVar("$v")>>)>>)>>) >>

\* node: caller $a    callee $a / fire $a
CallerSource ==
    << Decl("Node", "caller", <<"$a">>,
            <<SrcCall("callee", <<ItemVar("$a")>>),
              SrcCall("fire", <<ItemVar("$a")>>)>>) >>

\* node: callee $a    is-state $a
\* action: fire $v    effects: emit-value $v
CalleeSource ==
    << Decl("Node", "callee", <<"$a">>,
            <<SrcCall("is-state", <<ItemVar("$a")>>)>>),
       Decl("Action", "fire", <<"$v">>,
            <<SrcLabel("effects",
                <<SrcCall("emit-value", <<ItemVar("$v")>>)>>)>>) >>

Sources == <<RandomSource, ShadowSource, DupSource, ArityMatchSource,
             ArityCaseSource, PatternSource, ForwardSource>>

\* What the host hands to BehaviorTreeBuilder::compile: one of the sources,
\* or several of them.
Loads ==
    [i \in 1..Len(Sources) |-> <<Sources[i]>>]
        \o << <<CallerSource, CalleeSource>>, <<CalleeSource, CalleeSource>> >>

Scripts == <<DispatchScript, InheritScript, DiscoveryScript>>
Trees == [i \in 1..Len(Scripts) |-> BuilderCompile(Scripts[i])]

(* ---------------------------------------------------------------------- *)
(* Inputs                                                                  *)
(* ---------------------------------------------------------------------- *)
Ints == {Int_(n) : n \in 0..MaxVal}
Values == Ints \cup {Symbol("wrong")}
Arguments == {<<>>, <<Int_(0), Int_(0)>>} \cup {<<a>> : a \in Values}

RECURSIVE SeqsUpTo(_, _)
SeqsUpTo(S, n) ==
    IF n = 0 THEN {<<>>}
    ELSE SeqsUpTo(S, n - 1)
         \cup {Append(s, x) : s \in {t \in SeqsUpTo(S, n - 1) : Len(t) = n - 1},
                              x \in S}

Views == [state : 0..MaxVal,
          nums : SeqsUpTo({Int_(1), Int_(2)}, MaxNums)]

NamesOf(tree) ==
    UNION {DOMAIN id_map(tree.ids, k).indices : k \in Kinds}
Names(tree) == NamesOf(tree) \cup {"missing"}

(* ---------------------------------------------------------------------- *)
(* State                                                                   *)
(* ---------------------------------------------------------------------- *)
VARIABLES
    script,     \* which compiled tree the host holds (index into Trees)
    view,       \* the host's world view
    op,         \* the last call made on the tree
    result,     \* what that call returned
    sink,       \* the host's action collection
    before,     \* the collection as it was when the last call started
    trace,      \* what the last call did, in order
    cache,      \* the context cache as the last call left it
    ids,        \* the identifier space of a builder taking registrations
    last_set    \* the last registration made on the builder and its result

vars == <<script, view, op, result, sink, before, trace, cache, ids, last_set>>

Tree == [ids |-> ids]

NoOp == [kind |-> "none", name |-> "", args |-> <<>>]
NoSet == [kind |-> NoKind, name |-> "", arity |-> 0, ok |-> TRUE,
          reported |-> NoKind]

NoCall ==
    /\ op = NoOp
    /\ result = Ok(Success)
    /\ sink = <<>>
    /\ before = <<>>
    /\ trace = <<>>
    /\ cache = <<>>

\* A host holding one of the compiled trees, before its first call.
Init ==
    /\ script \in 1..Len(Scripts)
    /\ view \in Views
    /\ NoCall
    /\ ids = Trees[script].ids
    /\ last_set = NoSet

\* A builder before its first registration.
InitBuilder ==
    /\ script = 1
    /\ view = [state |-> 0, nums |-> <<>>]
    /\ NoCall
    /\ ids = IdSpaceDefault
    /\ last_set = NoSet

\* evaluate and check leave the tree, the view and the host's collection as
\* they were: every call that could follow one of them is already made from
\* the state before it, so a behaviour makes at most one, as its last call.
Settled == op.kind \notin {"evaluate", "check"}

Returned(kind, name, args, r) ==
    /\ op' = [kind |-> kind, name |-> name, args |-> args]
    /\ result' = r.result
    /\ sink' = r.st.sink
    /\ before' = sink
    /\ trace' = r.st.trace
    /\ cache' = r.st.cache
    /\ UNCHANGED <<script, view, ids, last_set>>

Evaluate ==
    /\ Settled
    /\ \E name \in Names(Tree), args \in Arguments :
        Returned("evaluate", name, args,
                 BehaviorTreeEvaluate(Tree, view, name, args, TRUE, sink))

Check ==
    /\ Settled
    /\ \E name \in Names(Tree), args \in Arguments :
        Returned("check", name, args,
                 BehaviorTreeCheck(Tree, view, name, args, TRUE, sink))

DiscoverAll ==
    /\ Settled
    /\ Len(sink) < MaxSink
    /\ Returned("discover_all", "", <<>>,
                BehaviorTreeDiscoverAll(Tree, view, TRUE, sink))

Discover ==
    /\ Settled
    /\ Len(sink) < MaxSink
    /\ \E name \in Names(Tree) :
        Returned("discover", name, <<>>,
                 BehaviorTreeDiscover(Tree, view, name, TRUE, sink))

Next == Evaluate \/ Check \/ DiscoverAll \/ Discover

Spec == Init /\ [][Next]_vars

\* The reference script calls no query: the views that differ in what the
\* queries yield are one view to it.
RefViews == {v \in Views : v.nums = <<>>}

\* A host holding the tree of the reference script, before its first call.
InitRefs ==
    /\ script = Len(Scripts) + 2
    /\ view \in RefViews
    /\ NoCall
    /\ ids = BuilderCompile(RefScript).ids
    /\ last_set = NoSet

SpecRefs == InitRefs /\ [][Next]_vars

(* ---------------------------------------------------------------------- *)
(* The cache on its own: ContextCache::get called with any calc_outcome.   *)
(* A step is a get up to the call of calc_outcome (or to its return, on a  *)
(* hit), or the return of the calc_outcome of the innermost get that has   *)
(* not returned; the gets made in between are the nested ones.  trace      *)
(* holds the miss, hit and fill records of the steps.                      *)
(* ---------------------------------------------------------------------- *)
MaxGets == 4

\* Lines of earlier gets, the most recent first, each under its own key.
OldLine(i) == CacheLine(RefIdx("Cond", i), FALSE, <<>>, Success)
OldLines(n) == [i \in 1..n |-> OldLine(i)]

\* The keys of the gets: two that differ in is_active only, and the key of
\* the least recently used line of a full cache.
Key(ref, arguments, is_active) ==
    [ref |-> ref, args |-> arguments, is_active |-> is_active]
CacheKeys ==
    {Key(RefIdx("Node", 0), <<>>, TRUE), Key(RefIdx("Node", 0), <<>>, FALSE),
     Key(RefIdx("Cond", LRU_LEN), <<>>, FALSE)}

\* The context a get with the key is made from.
KeyContext(key) ==
    IF key.is_active THEN EvalContextNew(view, Tree, TRUE)
    ELSE CtxToInactive(EvalContextNew(view, Tree, TRUE))

\* The gets that have not returned, the outermost first.
RECURSIVE PendingUpTo(_, _)
PendingUpTo(events, n) ==
    IF n = 0 THEN <<>>
    ELSE CASE events[n].ev = "miss" ->
                Append(PendingUpTo(events, n - 1), events[n])
           [] events[n].ev = "fill" ->
                SubSeq(PendingUpTo(events, n - 1), 1,
                       Len(PendingUpTo(events, n - 1)) - 1)
           [] OTHER -> PendingUpTo(events, n - 1)

Pending == PendingUpTo(trace, Len(trace))

\* A cache that is empty, one line short of full, or full; or a full cache
\* during a get whose line the gets nested in it have pushed out.
InitCache ==
    /\ script = 0
    /\ view = [state |-> 0, nums |-> <<>>]
    /\ op = NoOp
    /\ result = Ok(Success)
    /\ sink = <<>>
    /\ before = <<>>
    /\ ids = BuilderCompile(<<>>).ids
    /\ last_set = NoSet
    /\ \/ /\ cache \in {OldLines(0), OldLines(LRU_LEN - 1), OldLines(LRU_LEN)}
          /\ trace = <<>>
       \/ /\ cache = OldLines(LRU_LEN)
          /\ trace = <<CacheMiss(KeyContext(Key(RefIdx("Node", 0), <<>>,
                                                TRUE)),
                                 RefIdx("Node", 0), <<>>)>>

CacheState == [StateNew(sink) EXCEPT !.cache = cache, !.trace = trace]

Stepped(st) ==
    /\ cache' = st.cache
    /\ trace' = st.trace
    /\ UNCHANGED <<script, view, op, result, sink, before, ids, last_set>>

\* A get is called: it finds a line and returns, or finds none and calls
\* calc_outcome.
CacheGet ==
    /\ Len(trace) < MaxGets
    /\ \E key \in CacheKeys :
          LET index == CacheFind(cache, key.ref, key.args, key.is_active) IN
          IF index # -1
          THEN Stepped(CacheGetHit(KeyContext(key), key.ref, key.args, index,
                                   CacheState).st)
          ELSE Stepped(CacheGetMiss(KeyContext(key), key.ref, key.args,
                                    CacheState))

\* The calc_outcome of the innermost get that has not returned returns.
CacheReturn ==
    /\ Len(trace) < MaxGets
    /\ Pending # <<>>
    /\ \E out \in {Success, Failure} :
          LET key == Pending[Len(Pending)] IN
          Stepped(CacheFill(CacheLine(key.ref, key.is_active, key.args,
                                      Failure),
                            Ret(out, CacheState)).st)

NextCache == CacheGet \/ CacheReturn

SpecCache == InitCache /\ [][NextCache]_vars

\* A host holding the tree of the query script, before its first call.
InitQuery ==
    /\ script = Len(Scripts) + 1
    /\ view \in Views
    /\ NoCall
    /\ ids = BuilderCompile(QueryScript).ids
    /\ last_set = NoSet

SpecQuery == InitQuery /\ [][Next]_vars

(* ---------------------------------------------------------------------- *)
(* Compilation: a host that compiles one of the sources on a builder       *)
(* holding its registrations, and then calls the tree it got.              *)
(* ---------------------------------------------------------------------- *)
MaxSeed == 1
MaxDraws == 2

\* The seeds fastrand hands to one compilation, in the order it draws them.
Draws == [1..MaxDraws -> 0..MaxSeed]

\* The builder after the host's registrations, a seed handler among them.
HostIds == IdSpaceSet(BuilderCompile(<<>>).ids, "Global", "turn", "turn", 0).ids

InitCompile ==
    /\ script = 0
    /\ view \in Views
    /\ NoCall
    /\ ids = HostIds
    /\ last_set = NoSet

\* compile: the host gets a tree, or an error and nothing to call.  In this
\* specification script is what was compiled (index into Loads).
Compiling(compiled) ==
    /\ result' = IF compiled.ok THEN Ok(Success) ELSE compiled
    /\ ids' = IF compiled.ok THEN compiled.ids ELSE ids

Compile ==
    /\ op = NoOp
    /\ \E i \in 1..Len(Loads), rnd \in Draws, reverse \in BOOLEAN :
        /\ script' = i
        /\ op' = [kind |-> "compile", name |-> "", args |-> <<>>]
        /\ Compiling(BuilderCompileSources(ids, Loads[i], rnd, reverse))
        /\ UNCHANGED <<view, sink, before, trace, cache, last_set>>

HasTree == op # NoOp /\ ~(op.kind = "compile" /\ ~result.ok)

NextCompile ==
    \/ Compile
    \/ (HasTree /\ Evaluate)
    \/ (HasTree /\ Check)
    \/ (HasTree /\ DiscoverAll)
    \/ (HasTree /\ Discover)

SpecCompile == InitCompile /\ [][NextCompile]_vars

(* ---------------------------------------------------------------------- *)
(* Conversions of argument values to host types (src/src/value.rs): a      *)
(* host that converts a sequence of values to a tuple or an array type.    *)
(* ---------------------------------------------------------------------- *)
MaxArity == 2

Types == {"i32", "SmolStr"}

\* Value::try_into for the scalar types.
TryInto(value, type) ==
    CASE type = "i32" ->
            IF value.tag = "Int" THEN [ok |-> TRUE, v |-> value.int]
            ELSE [ok |-> FALSE]
      [] type = "SmolStr" ->
            IF value.tag = "Symbol" THEN [ok |-> TRUE, v |-> value.sym]
            ELSE [ok |-> FALSE]

NoneValues == [some |-> FALSE]
SomeValues(converted) == [some |-> TRUE, values |-> converted]

\* try_from_values of a tuple type at its element i: the next value of the
\* iterator converted, then the check that the iterator is exhausted.
RECURSIVE TupleTryFromValues(_, _, _, _)
TupleTryFromValues(types, values, i, tuple) ==
    IF i > Len(types)
    THEN IF Len(values) < i THEN SomeValues(tuple) ELSE NoneValues
    ELSE IF Len(values) < i THEN NoneValues
    ELSE IF ~TryInto(values[i], types[i]).ok THEN NoneValues
    ELSE TupleTryFromValues(types, values, i + 1,
                            Append(tuple, TryInto(values[i], types[i]).v))

\* try_from_values of [T; N]: N values are taken from the iterator, each
\* converted when there is one.
ArrayTryFromValues(type, n, values) ==
    LET taken == [i \in 1..n |->
                    IF i <= Len(values) THEN TryInto(values[i], type)
                    ELSE [ok |-> FALSE]]
    IN IF \E i \in 1..n : ~taken[i].ok THEN NoneValues
       ELSE SomeValues([i \in 1..n |-> taken[i].v])

TupleType(types) == [shape |-> "tuple", types |-> types]
ArrayType(type, n) == [shape |-> "array", type |-> type, n |-> n]

\* TryFromValues::ARITY, and the type of the element at a place.
ARITY(target) == IF target.shape = "tuple" THEN Len(target.types) ELSE target.n
TypeAt(target, i) ==
    IF target.shape = "tuple" THEN target.types[i] ELSE target.type

try_from_values(target, values) ==
    IF target.shape = "tuple"
    THEN TupleTryFromValues(target.types, values, 1, <<>>)
    ELSE ArrayTryFromValues(target.type, target.n, values)

Targets ==
    {TupleType(t) : t \in SeqsUpTo(Types, MaxArity)}
        \cup {ArrayType(t, n) : t \in Types, n \in 0..MaxArity}

\* A host about to convert a sequence of values to one of the types.
InitValues ==
    /\ script = 0
    /\ view = [state |-> 0, nums |-> <<>>]
    /\ \E target \in Targets, values \in SeqsUpTo(Values, MaxArity + 1) :
        op = [kind |-> "values", name |-> target, args |-> values]
    /\ result = NoneValues
    /\ sink = <<>>
    /\ before = <<>>
    /\ trace = <<>>
    /\ cache = <<>>
    /\ ids = IdSpaceDefault
    /\ last_set = NoSet

TryFromValues ==
    /\ op.kind = "values"
    /\ op' = [op EXCEPT !.kind = "try_from_values"]
    /\ result' = try_from_values(op.name, op.args)
    /\ UNCHANGED <<script, view, sink, before, trace, cache, ids, last_set>>

NextValues == TryFromValues

SpecValues == InitValues /\ [][NextValues]_vars

(* ---------------------------------------------------------------------- *)
(* Registration: a builder taking host registrations                       *)
(* (src/src/tree/builder.rs) and root declarations                         *)
(* (src/src/tree/script/compile.rs) in any order.                          *)
(* ---------------------------------------------------------------------- *)
RegNames == {"a", "b", "c"}
Arities == {1}

Registered(ids_) ==
    Cardinality(UNION {DOMAIN id_map(ids_, k).indices : k \in Kinds})

Placeholder(kind) ==
    IF kind = "Action" THEN ActionRootDefault ELSE NodeRootDefault

\* The builder takes registrations while it holds fewer than MaxRegs names.
Open == Registered(ids) < MaxRegs

Set(kind, name, node, arity) ==
    /\ ids' = IdSpaceSet(ids, kind, name, node, arity).ids
    /\ last_set' = [kind |-> kind, name |-> name, arity |-> arity,
                    ok |-> IdSpaceSet(ids, kind, name, node, arity).ok,
                    reported |->
                        IdSpaceSet(ids, kind, name, node, arity).kind]
    /\ UNCHANGED <<script, view, op, result, sink, before, trace, cache>>

register_global ==
    /\ Open
    /\ \E name \in RegNames : Set("Global", name, name, 0)

register_effect ==
    /\ Open
    /\ \E name \in RegNames, arity \in Arities :
        Set("Effect", name, name, arity)

register_query ==
    /\ Open
    /\ \E name \in RegNames, arity \in Arities :
        Set("Query", name, name, arity)

register_condition ==
    /\ Open
    /\ \E name \in RegNames, arity \in Arities :
        Set("Cond", name, name, arity)

insert_node ==
    /\ Open
    /\ \E name \in RegNames, arity \in Arities, kind \in {"Action", "Node"} :
        Set(kind, name, Placeholder(kind), arity)

NextIds ==
    \/ register_global
    \/ register_effect
    \/ register_query
    \/ register_condition
    \/ insert_node

SpecIds == InitBuilder /\ [][NextIds]_vars

(* ---------------------------------------------------------------------- *)
(* Properties                                                              *)
(* ---------------------------------------------------------------------- *)
\* The events of one kind in the record of the last call.
Events(ev) == {i \in DOMAIN trace : trace[i].ev = ev}
BranchEvents(dispatch) ==
    {i \in Events("branches") : trace[i].dispatch = dispatch}

\* C1: check on a name that resolves returns Success or Failure, never an
\* Action, whatever the cache holds by then.
C1_CheckNeverAction ==
    (op.kind = "check" /\ result.ok)
        => result.outcome.o \in {"Success", "Failure"}

\* A check during which an action was made, handed to the inactive
\* evaluation context, and cached.
C1_Witness ==
    /\ op.kind = "check"
    /\ result.ok
    /\ cache # <<>>
    /\ \E i \in Events("action") : ~trace[i].disc /\ trace[i].out = Failure

\* C2: memoization is transparent: evaluate returns the outcome of the
\* evaluation in which every Ref computes its outcome without the cache.
C2_MemoizationTransparent ==
    op.kind = "evaluate"
        => result = BehaviorTreeEvaluate(Tree, view, op.name, op.args, FALSE,
                                         before).result

\* The effects of the actions of a collection, in collection order.
RECURSIVE CollectedEffects(_)
CollectedEffects(actions) ==
    IF Len(actions) = 0 THEN <<>>
    ELSE actions[1].effects \o CollectedEffects(Tail(actions))

\* The effects a root declares, materialized for the given arguments.
DeclaredEffects(index, arguments) ==
    LET root == IdSpaceGet(ids, "Action", index) IN
    [k \in 1..Len(root.effects) |->
        EffectFn(IdSpaceGet(ids, "Effect", root.effects[k][1]), view,
                 reify_values(EvalContextNew(view, Tree, TRUE), arguments,
                              root.effects[k][2])).eff]

\* C3: the effects of every Action an action root makes are its own declared
\* effects in declaration order followed by the effects of every action its
\* inherit nodes collected, in collection order; an Action that an
\* evaluation returns is one a root made.
C3_ActionEffects ==
    /\ \A i \in Events("made") :
        trace[i].action.effects
            = DeclaredEffects(trace[i].action.index,
                              trace[i].action.arguments)
              \o CollectedEffects(trace[i].inherited)
    /\ (op.kind = "evaluate" /\ result.ok /\ is_action(result.outcome))
        => \E i \in Events("made") : trace[i].action = result.outcome.action

\* An action made of effects of its own and of two collected actions, one
\* of which inherited itself.
C3_Witness ==
    \E i \in Events("made") :
        /\ Len(trace[i].own) = 2
        /\ Len(trace[i].inherited) = 2
        /\ Len(trace[i].action.effects) = 5

\* C4: a Sequence evaluates its branches left to right, returns the first
\* non-Success outcome without evaluating a later branch, and returns
\* Success when every branch succeeded, also when it has no branch.
C4_Sequence ==
    \A i \in BranchEvents("Sequence") :
        LET e == trace[i]
            k == Len(e.outs)
        IN /\ k <= e.n
           /\ \A j \in 1..k : e.outs[j].branch = j
           /\ \A j \in 1..(k - 1) : is_success(e.outs[j].out)
           /\ IF k > 0 /\ is_non_success(e.outs[k].out)
              THEN e.out = e.outs[k].out
              ELSE k = e.n /\ e.out = Success

\* A Sequence of two branches whose first branch yielded an Action.
C4_Witness ==
    \E i \in BranchEvents("Sequence") :
        /\ trace[i].n = 2
        /\ Len(trace[i].outs) = 1
        /\ is_action(trace[i].out)

\* C5: a Selection evaluates its branches left to right, returns the first
\* non-Failure outcome, and Failure when every branch failed, also when it
\* has no branch; in active mode the Action it returns is the one of the
\* first branch whose guards succeed.
C5_Selection ==
    /\ \A i \in BranchEvents("Selection") :
        LET e == trace[i]
            k == Len(e.outs)
        IN /\ k <= e.n
           /\ \A j \in 1..k : e.outs[j].branch = j
           /\ \A j \in 1..(k - 1) : is_failure(e.outs[j].out)
           /\ IF k > 0 /\ is_non_failure(e.outs[k].out)
              THEN e.out = e.outs[k].out
              ELSE k = e.n /\ e.out = Failure
    /\ (script = 1 /\ op.kind = "evaluate" /\ op.name = "test" /\ result.ok)
        => result.outcome =
            IF op.args[1] = Int_(view.state)
            THEN OutcomeAction(Action(0, <<Int_(1)>>, <<1>>))
            ELSE IF view.state = 1
            THEN OutcomeAction(Action(0, <<Int_(2)>>, <<2>>))
            ELSE Failure

\* An active Selection whose first branch failed on its guard and whose
\* second branch made the Action returned.
C5_Witness ==
    /\ op.kind = "evaluate"
    /\ result.ok
    /\ is_action(result.outcome)
    /\ \E i \in BranchEvents("Selection") :
        /\ trace[i].is_active
        /\ Len(trace[i].outs) = 2
        /\ is_failure(trace[i].outs[1].out)
        /\ trace[i].out = result.outcome

\* C6: a None dispatch evaluates each branch in inactive mode, also under an
\* active context, so that no branch yields an Action; it returns Failure
\* as soon as a branch yields a non-Failure outcome and Success otherwise.
C6_NoneInactive ==
    \A i \in BranchEvents("None") :
        LET e == trace[i]
            k == Len(e.outs)
        IN /\ \A j \in 1..k : e.outs[j].branch = j /\ ~is_action(e.outs[j].out)
           /\ \A j \in 1..(k - 1) : is_failure(e.outs[j].out)
           /\ e.out = IF k > 0 /\ is_non_failure(e.outs[k].out)
                      THEN Failure ELSE Success

\* The actions a call appended to the collection.
Appended == SubSeq(sink, Len(before) + 1, Len(sink))

\* The Action of the discovery script's root for a yielded value, when
\* the root admits the value.
Admits(index, value) == index = 1 \/ value.int # view.state
Discovered(index, value) ==
    Action(index, <<value>>,
           IF index = 0 THEN <<view.state + value.int>> ELSE <<value.int>>)

\* C7: for an action whose discovery iterates a query and refers to itself
\* with each yielded value, discover_all appends exactly one Action per
\* yielded value the action admits, with that value as arguments and the
\* materialized effects, in the order yielded.
C7_DiscoverAllPerValue ==
    (script = 3 /\ op.kind = "discover_all")
        => \A index \in {0, 1} :
            SelectSeq(Appended, LAMBDA a : a.index = index)
                = [k \in 1..Len(SelectSeq(view.nums,
                                          LAMBDA v : Admits(index, v))) |->
                    Discovered(index,
                               SelectSeq(view.nums,
                                         LAMBDA v : Admits(index, v))[k])]

\* C8: under a discovery context with target filter A, action(a) appends a
\* and returns Success exactly when a.index = A or there is no filter, and
\* otherwise returns Failure and leaves the collection as it was; after
\* discover(view, A, sink) the collection is its previous content followed
\* only by actions of index A.
C8_DiscoveryFilter ==
    /\ \A i \in Events("action") :
        trace[i].disc =>
            IF trace[i].filter = NoIndex
                \/ trace[i].filter = trace[i].action.index
            THEN /\ trace[i].out = Success
                 /\ trace[i].after = Append(trace[i].before, trace[i].action)
            ELSE /\ trace[i].out = Failure
                 /\ trace[i].after = trace[i].before
    /\ (op.kind = "discover" /\ result.ok)
        => /\ Len(before) <= Len(sink)
           /\ SubSeq(sink, 1, Len(before)) = before
           /\ \A k \in 1..Len(Appended) :
                Appended[k].index = IdMapFind(ids.action_roots, op.name)

\* A discover on a collection that was not empty, which appended to it and
\* turned away an action of another index.
C8_Witness ==
    /\ op.kind = "discover"
    /\ before # <<>>
    /\ Len(sink) > Len(before)
    /\ \E i \in Events("action") :
        /\ trace[i].disc
        /\ trace[i].filter # NoIndex
        /\ trace[i].filter # trace[i].action.index

\* C9: evaluate and check return an IdError, and call no handler and no
\* root, when the name is unknown (Unknown), names a global, an effect or a
\* query (Kind, whatever the number of arguments), or names an action, a
\* node or a condition of another arity (Arity); otherwise they return Ok.
C9_Resolution ==
    op.kind \in {"evaluate", "check"} =>
        LET Held == {k \in Kinds : op.name \in DOMAIN id_map(ids, k).indices}
            Arity(k) == id_map(ids, k).data[id_map(ids, k).indices[op.name]
                                            + 1]
        IN IF Held = {}
           THEN ~result.ok /\ result.error = "Unknown" /\ trace = <<>>
           ELSE IF Held \cap {"Global", "Effect", "Query"} # {}
           THEN /\ ~result.ok /\ result.error = "Kind"
                /\ result.given \in Held
                /\ trace = <<>>
           ELSE IF \E k \in Held : Arity(k) # Len(op.args)
           THEN /\ ~result.ok /\ result.error = "Arity"
                /\ result.given = Len(op.args)
                /\ trace = <<>>
           ELSE result.ok

\* An evaluate or check of a root with the wrong number of arguments.
C9_Witness ==
    /\ op.kind \in {"evaluate", "check"}
    /\ ~result.ok
    /\ result.error = "Arity"
    /\ op.name \in DOMAIN ids.node_roots.indices

\* The kinds under which a name is registered.
KindsOf(ids_, name) ==
    {k \in Kinds : name \in DOMAIN id_map(ids_, k).indices}

\* C10: every name is in at most one kind's map, and a registration of a
\* name already present under any kind is rejected, reporting the kind it
\* has, and leaves every map unchanged.
C10_OneKindPerName ==
    [][/\ \A name \in RegNames : Cardinality(KindsOf(ids', name)) <= 1
       /\ KindsOf(ids, last_set'.name) # {}
            => /\ ~last_set'.ok
               /\ last_set'.reported \in KindsOf(ids, last_set'.name)
               /\ ids' = ids]_vars

\* A registration rejected because the name is held by another kind.
C10_Witness ==
    /\ ~last_set.ok
    /\ last_set.reported # last_set.kind
    /\ last_set.reported \in KindsOf(ids, last_set.name)

\* The query nodes of one mode in the record of the last call, and the
\* positions of the yielded values the pattern of a query node matches, in
\* yield order.
QueryEvents(mode) == {i \in Events("query") : trace[i].mode = mode}

Matching(e) ==
    LET Matches(i) == try_apply(EvalContextNew(view, Tree, TRUE), e.pattern,
                                e.lex, e.items[i]).ok
    IN SelectSeq([i \in 1..Len(e.items) |-> i], Matches)

\* C11: a for-every query evaluates its body for the yielded values that
\* match the pattern, in yield order, skipping the others; it returns the
\* first non-Success outcome of the body without visiting a later value, and
\* Success when every matching value succeeded, also when there is none.
C11_QuerySequence ==
    \A i \in QueryEvents("Sequence") :
        LET e == trace[i]
            m == Matching(e)
            k == Len(e.visits)
        IN /\ k <= Len(m)
           /\ \A j \in 1..k : e.visits[j].item = m[j]
           /\ \A j \in 1..(k - 1) : is_success(e.visits[j].out)
           /\ IF k > 0 /\ is_non_success(e.visits[k].out)
              THEN e.out = e.visits[k].out
              ELSE k = Len(m) /\ e.out = Success

\* A for-every query that returned the Action of the first of two matching
\* values and left the second one alone.
C11_Witness ==
    \E i \in QueryEvents("Sequence") :
        /\ Len(Matching(trace[i])) = 2
        /\ Len(trace[i].visits) = 1
        /\ is_action(trace[i].out)

\* C12: a with-first query returns the outcome of its body for the first
\* yielded value that matches the pattern and evaluates the body for no
\* other value; it returns Failure when no yielded value matches.
C12_QueryFirst ==
    \A i \in QueryEvents("First") :
        LET e == trace[i]
            m == Matching(e)
        IN IF Len(m) = 0
           THEN e.visits = <<>> /\ e.out = Failure
           ELSE /\ Len(e.visits) = 1
                /\ e.visits[1].item = m[1]
                /\ e.out = e.visits[1].out

\* A with-first query that skipped the first yielded value and returned the
\* Action its body made for the second.
C12_Witness ==
    \E i \in QueryEvents("First") :
        /\ Matching(trace[i]) = <<2>>
        /\ is_action(trace[i].out)

\* C13: a with-last query returns the outcome of its body for the last
\* yielded value that matches the pattern, and Failure when none matches;
\* earlier matching values contribute neither to the outcome nor to the
\* collection of a discovery.
C13_QueryLast ==
    \A i \in QueryEvents("Last") :
        LET e == trace[i]
            m == Matching(e)
            k == Len(e.visits)
        IN IF Len(m) = 0
           THEN e.visits = <<>> /\ e.out = Failure
           ELSE /\ k > 0
                /\ e.visits[k].item = m[Len(m)]
                /\ e.out = e.visits[k].out
                /\ \A j \in 1..(k - 1) : e.visits[j].added = <<>>

\* A branch of a dispatch evaluated in a discovery that refers to an action
\* root and succeeded: the root made its action and the discovery took it.
Admitted(e, j) ==
    /\ e.disc
    /\ e.nodes[j].node = "Ref"
    /\ e.nodes[j].ref.kind = "Action"
    /\ is_success(e.outs[j].out)

\* C14: a visit: evaluates every branch in order, whatever a branch
\* returns, and returns Success; in a discovery the action of every
\* admitted branch is appended to the collection, in branch order.
C14_Visit ==
    \A i \in BranchEvents("Visit") :
        LET e == trace[i] IN
        /\ Len(e.outs) = e.n
        /\ \A j \in 1..e.n : e.outs[j].branch = j
        /\ e.out = Success
        /\ \A j \in 1..e.n :
            Admitted(e, j)
                => /\ Len(e.outs[j].added) = 1
                   /\ e.outs[j].added[1].index = e.nodes[j].ref.index

\* C15: two compilations of the same source on the same registrations give
\* trees that return the same result for every evaluate on the same view,
\* name and arguments.
C15_CompileDeterministic ==
    (op.kind = "evaluate" /\ script \in 1..Len(Sources))
        => \A rnd \in Draws :
            result = BehaviorTreeEvaluate(
                         [ids |-> compile_str(HostIds, Sources[script],
                                              rnd).ids],
                         view, op.name, op.args, TRUE, before).result

\* C16: try_from_values for a tuple or an array type of ARITY elements
\* returns Some exactly when the sequence holds ARITY values and each of
\* them converts to the type of its place; a shorter or longer sequence,
\* or an element that does not convert, gives None.
C16_TryFromValues ==
    op.kind = "try_from_values"
        => (result.some
            <=> /\ Len(op.args) = ARITY(op.name)
                /\ \A i \in 1..Len(op.args) :
                    TryInto(op.args[i], TypeAt(op.name, i)).ok)

(* ---------------------------------------------------------------------- *)
(* Compilation of patterns and frames                                      *)
(* ---------------------------------------------------------------------- *)
\* The host has just compiled the source src.
CompiledSource(src) == op.kind = "compile" /\ Loads[script] = <<src>>

\* The host holds the tree of the source src and has called it.
CalledSource(src) ==
    /\ op.kind \in {"evaluate", "check", "discover", "discover_all"}
    /\ Loads[script] = <<src>>

\* The root a successful compilation left under a name.
RootNamed(kind, name) ==
    IdSpaceGet(ids, kind, IdMapFind(id_map(ids, kind), name))

TraceEvents(ev) == {i \in 1..Len(trace) : trace[i].ev = ev}

\* C17 (as stated): compiling node: t $a containing match $a: $a fails with
\* a ShadowedLexical error for $a, and no tree is produced.
C17_ShadowedLexical ==
    CompiledSource(ShadowSource) =>
        /\ ~result.ok
        /\ result.error = "ShadowedLexical"
        /\ result.detail = "$a"
        /\ ids = HostIds

\* C17 (amended): compiling node: t $a containing match $a: $a succeeds: the
\* inner $a is the pattern Lexical(0), an equality test against the
\* parameter that declares nothing (lexicals = 1) and always matches.
\* ShadowedLexical is the error of a name that is declared twice, as in
\* node: t $a $a: it names $a and no tree is produced.
C17_Amended ==
    /\ CompiledSource(ShadowSource) =>
          /\ result.ok
          /\ RootNamed("Node", "t").lexicals = 1
          /\ RootNamed("Node", "t").node.branches[1].patterns
                = <<PatLexical(0)>>
          /\ RootNamed("Node", "t").node.branches[1].values
                = <<PLexical(0)>>
    /\ CalledSource(ShadowSource) =>
          \A i \in TraceEvents("match") :
              trace[i].ok /\ trace[i].bound = trace[i].lex
    /\ CompiledSource(DupSource) =>
          /\ ~result.ok
          /\ result.error = "ShadowedLexical"
          /\ result.detail = "$a"
          /\ ids = HostIds
    /\ (op.kind = "compile" /\ ~result.ok
            /\ result.error = "ShadowedLexical") =>
          Loads[script] = <<DupSource>>

C17_Witness ==
    /\ CalledSource(ShadowSource)
    /\ op.name = "t"
    /\ TraceEvents("match") # {}
    /\ result = Ok(Success)

\* A parsed node holds a match directive, or a case of a switch directive,
\* whose number of patterns differs from that of the target values.
RECURSIVE Mismatched(_)
Mismatched(node) ==
    CASE node.s = "Ref" -> FALSE
      [] node.s = "Match" ->
            \/ Len(node.patterns) # Len(node.targets)
            \/ \E i \in 1..Len(node.children) : Mismatched(node.children[i])
      [] node.s = "Switch" ->
            \E i \in 1..Len(node.children) :
                \/ /\ node.children[i].s = "Case"
                   /\ Len(node.children[i].patterns) # Len(node.targets)
                \/ Mismatched(node.children[i])
      [] OTHER ->
            \E i \in 1..Len(node.children) : Mismatched(node.children[i])

MismatchedSource(decls) ==
    \E d \in 1..Len(decls) :
        \E i \in 1..Len(decls[d].children) :
            Mismatched(decls[d].children[i])

\* C18: a match directive, or a case of a switch directive, with a number
\* of patterns other than the number of its target values is rejected by
\* the compilation with PatternArity (the targets expected, the patterns
\* given) and leaves no tree; every match node that is evaluated has as
\* many patterns as values.
C18_PatternArity ==
    /\ (op.kind = "compile" /\ MismatchedSource(Declarations(Loads[script], 1))) =>
          /\ ~result.ok
          /\ result.error = "PatternArity"
          /\ result.detail = [expected |-> 1, given |-> 2]
          /\ ids = HostIds
    /\ (op.kind = "compile" /\ ~result.ok /\ result.error = "PatternArity")
          => MismatchedSource(Declarations(Loads[script], 1))
    /\ \A i \in TraceEvents("match") :
          Len(trace[i].patterns) = Len(trace[i].values)

C18_Witness ==
    /\ CompiledSource(ArityCaseSource)
    /\ ~result.ok
    /\ result.error = "PatternArity"

\* What a script says a pattern does, in terms of the names it is written
\* with: b is the list of the variables bound so far and their values.
IsBound(b, name) == \E i \in 1..Len(b) : b[i].name = name
ValueOf(b, name) == b[CHOOSE i \in 1..Len(b) : b[i].name = name].value
IsGlobal(name) == IdMapFind(HostIds.globals, name) # -1
GlobalValue(name) ==
    GlobalFn(IdSpaceGet(HostIds, "Global", IdMapFind(HostIds.globals, name)),
             view)
BoundValues(b) == [i \in 1..Len(b) |-> b[i].value]

RECURSIVE SrcValue(_, _)
SrcValue(item, b) ==
    CASE item.item = "Var" ->
            IF IsBound(b, item.name) THEN ValueOf(b, item.name)
            ELSE GlobalValue(item.name)
      [] item.item = "Sym" -> Symbol(item.name)
      [] item.item = "Int" -> Int_(item.int)
      [] item.item = "Brackets" ->
            List([i \in 1..Len(item.items) |-> SrcValue(item.items[i], b)])

RECURSIVE SrcApply(_, _, _)
RECURSIVE SrcApplyAll(_, _, _, _)
SrcApply(item, value, b) ==
    CASE item.item = "Wildcard" -> [ok |-> TRUE, b |-> b]
      [] item.item = "Var" ->
            IF IsBound(b, item.name)
            THEN [ok |-> value = ValueOf(b, item.name), b |-> b]
            ELSE IF IsGlobal(item.name)
            THEN [ok |-> value = GlobalValue(item.name), b |-> b]
            ELSE [ok |-> TRUE,
                  b |-> Append(b, [name |-> item.name, value |-> value])]
      [] item.item = "Sym" -> [ok |-> value = Symbol(item.name), b |-> b]
      [] item.item = "Int" -> [ok |-> value = Int_(item.int), b |-> b]
      [] item.item = "Brackets" ->
            IF value.tag = "List" /\ Len(value.list) = Len(item.items)
            THEN SrcApplyAll(item.items, value.list, 1, b)
            ELSE [ok |-> FALSE, b |-> b]

SrcApplyAll(items, values, i, b) ==
    IF i > Len(items) THEN [ok |-> TRUE, b |-> b]
    ELSE LET r == SrcApply(items[i], values[i], b) IN
         IF r.ok THEN SrcApplyAll(items, values, i + 1, r.b) ELSE r

\* The roots of the pattern source that are one match directive of one list
\* pattern, and the declaration of one of them.
ListRoots == {"quad", "same", "nest", "short", "flat", "part"}
DeclNamed(name) ==
    PatternSource[CHOOSE d \in 1..Len(PatternSource) :
                      PatternSource[d].name = name]

\* The first match a call applied.
FirstMatch ==
    trace[CHOOSE i \in TraceEvents("match") :
              \A j \in TraceEvents("match") : i <= j]

\* The host has called one of the list roots of the pattern source with one
\* argument.
ListRootCalled ==
    /\ CalledSource(PatternSource)
    /\ op.kind \in {"evaluate", "check"}
    /\ op.name \in ListRoots
    /\ Len(op.args) = 1

\* C19: a list pattern matches a value iff the value is a list of the same
\* length and every element pattern matches its element, left to right: a
\* new variable binds the element, a variable bound before (earlier in the
\* pattern, or a parameter) and a global match only an equal value, a
\* literal matches only an equal value, and $ matches anything and binds
\* nothing.  The frame after a match holds the bound values in order.
C19_ListPattern ==
    ListRootCalled =>
        LET d == DeclNamed(op.name)
            b == <<[name |-> d.parameters[1], value |-> op.args[1]]>>
            target == SrcValue(d.children[1].targets[1], b)
            r == SrcApply(d.children[1].patterns[1], target, b)
        IN /\ TraceEvents("match") # {}
           /\ FirstMatch.values = <<target>>
           /\ FirstMatch.lex = op.args
           /\ FirstMatch.ok = r.ok
           /\ r.ok => FirstMatch.bound = BoundValues(r.b)
           /\ (op.name = "quad" /\ op.args = <<Int_(1)>>) =>
                 /\ FirstMatch.ok
                 /\ FirstMatch.bound = <<Int_(1), Int_(1), Int_(view.state)>>
           /\ (op.name = "quad" /\ op.args # <<Int_(1)>>) => ~FirstMatch.ok

C19_Witness ==
    /\ ListRootCalled
    /\ op.name = "quad"
    /\ op.args = <<Int_(1)>>
    /\ FirstMatch.ok
    /\ result = Ok(Success)

\* The number of values a recorded step left in the lexical frame: the
\* arguments a root starts with, and the frame after the patterns of a match
\* or the pattern of a query were applied, matched or not.
FrameLen(e) ==
    CASE e.ev = "root" -> Len(e.args)
      [] e.ev = "match" -> Len(e.bound)
      [] e.ev = "frame" -> Len(e.bound)

FrameEvents == {i \in 1..Len(trace) : trace[i].ev \in {"root", "match", "frame"}}

\* C20: in every evaluation of a compiled node or action root, its
\* discovery nodes included, the lexical frame never holds more values than
\* the lexicals the compilation gave the root.
C20_Lexicals ==
    (script # 0 /\ op.kind # "compile") =>
        \A i \in FrameEvents : FrameLen(trace[i]) <= trace[i].lexicals

C20_Witness ==
    /\ CalledSource(PatternSource)
    /\ op.kind = "discover_all"
    /\ \E i \in TraceEvents("match") :
          /\ trace[i].ok
          /\ Len(trace[i].bound) = 3
          /\ trace[i].lexicals = 3
    /\ \E i \in TraceEvents("root") :
          trace[i].kind = "Action" /\ trace[i].lexicals = 3

(* ---------------------------------------------------------------------- *)
(* References, activeness and the cache                                    *)
(* ---------------------------------------------------------------------- *)
\* The gets of the last call, in order, and whether two of them have the
\* same key (reference, arguments, is_active).
Gets == {i \in 1..Len(trace) : trace[i].ev \in {"hit", "miss", "fill"}}
SameKey(i, j) ==
    /\ trace[i].ref = trace[j].ref
    /\ trace[i].args = trace[j].args
    /\ trace[i].is_active = trace[j].is_active

\* The get that missed at i has finished at j.
Filled(i, j) ==
    /\ j \in Gets
    /\ j > i
    /\ trace[j].ev = "fill"
    /\ SameKey(i, j)

RootAt(p) == IdSpaceGet(ids, "Action", trace[p].index)
EffectArgs(p, k) ==
    reify_values(EvalContextNew(view, Tree, TRUE), trace[p].args,
                 RootAt(p).effects[k][2])
HandlerReturns(p, k) ==
    EffectFn(IdSpaceGet(ids, "Effect", RootAt(p).effects[k][1]), view,
             EffectArgs(p, k))
FirstNone(p) ==
    LET none == {k \in 1..Len(RootAt(p).effects) : ~HandlerReturns(p, k).some}
    IN IF none = {} THEN Len(RootAt(p).effects) + 1
       ELSE CHOOSE k \in none : \A j \in none : k <= j
HandlersCalled(p) ==
    IF ~is_success(trace[p].out) THEN 0
    ELSE IF FirstNone(p) > Len(RootAt(p).effects)
    THEN Len(RootAt(p).effects)
    ELSE FirstNone(p)

IsEffectCall(i) ==
    /\ i \in 1..Len(trace)
    /\ trace[i].ev = "call"
    /\ trace[i].kind = "Effect"

\* The evaluation of a root ended at q with Failure: it was the call the
\* host made, or the get that ran it stores Failure next.
EndedInFailure(q) ==
    IF q = Len(trace) THEN result = Ok(Failure)
    ELSE trace[q + 1].ev = "fill" /\ trace[q + 1].out = Failure

\* C22: ActionRoot::eval evaluates the conditions before any effect
\* handler, calls the handlers in declaration order and stops at the first
\* failure: a handler is only ever called right after the conditions of its
\* root succeeded; after conditions that did not succeed none is called and
\* the result is Failure; after a handler returned None no later handler is
\* called, no inherit node is evaluated and the result is Failure.
C22_ActionOrder ==
    /\ \A p \in Events("conditions") :
          /\ p + HandlersCalled(p) <= Len(trace)
          /\ \A k \in 1..HandlersCalled(p) :
                trace[p + k] = Called("Effect", RootAt(p).effects[k][1],
                                      EffectArgs(p, k))
          /\ ~IsEffectCall(p + HandlersCalled(p) + 1)
          /\ (~is_success(trace[p].out)
                \/ FirstNone(p) <= Len(RootAt(p).effects))
                => EndedInFailure(p + HandlersCalled(p))
    /\ \A e \in 1..Len(trace) :
          IsEffectCall(e) =>
              \E p \in Events("conditions") :
                  /\ is_success(trace[p].out)
                  /\ p < e
                  /\ e <= p + HandlersCalled(p)

\* guarded 1 called in state 1: the conditions succeed, emit-value returns
\* an effect, emit-sum returns None, and nothing else happens.
C22_Witness ==
    /\ script = Len(Scripts) + 2
    /\ op.kind = "evaluate"
    /\ op.name = "guarded"
    /\ result = Ok(Failure)
    /\ \E p \in Events("conditions") :
          /\ is_success(trace[p].out)
          /\ Len(RootAt(p).effects) = 3
          /\ FirstNone(p) = 2
          /\ p + 2 = Len(trace)

\* The Random nodes with check_any of the last call one of whose shuffled
\* branches produced an Action: it is the last branch they took.
AnyEvents ==
    {i \in Events("random") :
        /\ trace[i].check_any
        /\ trace[i].taken # <<>>
        /\ is_action(trace[i].taken[Len(trace[i].taken)])}
Produced(i) == trace[i].taken[Len(trace[i].taken)]
SomeScannedSucceeds(i) ==
    \E k \in 1..Len(trace[i].scanned) : is_success(trace[i].scanned[k])

\* C23: a Random node with check_any one of whose shuffled branches
\* produced an Action evaluates the remaining shuffled branches in inactive
\* mode; it returns that Action if one of them succeeds, and Failure if
\* none does.
C23_CheckAny ==
    \A i \in AnyEvents :
        /\ ~trace[i].scan_active
        /\ trace[i].out = (IF SomeScannedSucceeds(i) THEN Produced(i)
                           ELSE Failure)

\* C24: a Cond node evaluates its case guards in order in inactive mode,
\* so no guard yields an Action; it evaluates no guard after the first that
\* succeeds and gives the outcome of that case's body; without a guard that
\* succeeds it has evaluated every guard and gives the outcome of the else
\* branch, or Failure if there is none.
C24_Cond ==
    \A i \in Events("cond") :
        LET e == trace[i] IN
        /\ ~e.guard_active
        /\ \A k \in 1..Len(e.guards) : ~is_action(e.guards[k])
        /\ \A k \in 1..(Len(e.guards) - 1) : ~is_success(e.guards[k])
        /\ IF e.guards # <<>> /\ is_success(e.guards[Len(e.guards)])
           THEN e.chosen = Len(e.guards)
           ELSE /\ Len(e.guards) = e.n
                /\ e.chosen = 0
                /\ ~e.has_else => e.out = Failure

\* C25: activeness only decreases along a reference chain.  A Query
\* reference evaluates its target in an inactive context and an Inherit
\* reference in a context as active as its caller's, so no target is active
\* under an inactive caller; and in an evaluation context a Query reference
\* to an action yields Failure, whatever the action's conditions and
\* effects do.
C25_Activeness ==
    \A i \in Events("ref") :
        LET e == trace[i] IN
        /\ e.mode = "Query" => ~e.target_active
        /\ e.mode = "Inherit" => e.target_active = e.caller_active
        /\ e.target_active => e.caller_active
        /\ (~e.disc /\ e.mode = "Query" /\ e.ref.kind = "Action")
              => e.out = Failure

\* C26: evaluating the conditions of an action only observes, in every
\* context: an action reached from the conditions yields Failure and
\* appends nothing, a reference to an action made in the conditions yields
\* Failure, and the conditions leave the collection as it was.
C26_ConditionsObserve ==
    /\ \A i \in Events("action") :
          trace[i].conds =>
              /\ trace[i].out = Failure
              /\ trace[i].after = trace[i].before
    /\ \A i \in Events("ref") :
          (trace[i].conds /\ trace[i].ref.kind = "Action")
              => trace[i].out = Failure
    /\ \A i \in Events("conditions") : trace[i].added = <<>>

(* ---------------------------------------------------------------------- *)
(* Registration and compilation                                            *)
(* ---------------------------------------------------------------------- *)
\* The declarations of what the host compiled, and the loads in which a
\* body refers to a root that is declared after it, in the same source or
\* in another one.
Declared == Declarations(Loads[script], 1)
ForwardLoads == {<<ForwardSource>>, <<CallerSource, CalleeSource>>}
IndexNamed(kind, name) == IdMapFind(id_map(ids, kind), name)

\* The node and the action a calling root of a forward load refers to.
Callees ==
    [first |-> [node |-> "later", action |-> "go"],
     caller |-> [node |-> "callee", action |-> "fire"]]

\* C27: every declaration of every loaded source is registered before any
\* body is compiled.  A load whose bodies refer to roots declared later, in
\* the same or in another source, compiles; in the tree every declared root
\* is a compiled root with its index set, never the placeholder; and the
\* references evaluate the roots they name.
C27_Registration ==
    /\ (op.kind = "compile" /\ Loads[script] \in ForwardLoads) => result.ok
    /\ (HasTree /\ script \in 1..Len(Loads)) =>
          \A d \in 1..Len(Declared) :
              LET root == RootNamed(Declared[d].kind, Declared[d].name) IN
              /\ root \notin {NodeRootDefault, ActionRootDefault}
              /\ root.index # NoIndex
              /\ root.index = IndexNamed(Declared[d].kind, Declared[d].name)
    /\ (/\ op.kind = "evaluate"
        /\ script \in 1..Len(Loads)
        /\ Loads[script] \in ForwardLoads
        /\ op.name \in DOMAIN Callees
        /\ Len(op.args) = 1) =>
          /\ result.ok
          /\ \E i \in TraceEvents("root") :
                /\ trace[i].kind = "Node"
                /\ trace[i].index = IndexNamed("Node", Callees[op.name].node)
          /\ result.outcome =
                IF op.args[1] = Int_(view.state)
                THEN OutcomeAction(
                         Action(IndexNamed("Action", Callees[op.name].action),
                                op.args, <<view.state>>))
                ELSE Failure

\* caller (of one source) has evaluated callee and fire (of another source,
\* loaded after it) and returned the action of fire.
C27_Witness ==
    /\ op.kind = "evaluate"
    /\ script \in 1..Len(Loads)
    /\ Loads[script] = <<CallerSource, CalleeSource>>
    /\ op.name = "caller"
    /\ result.ok
    /\ is_action(result.outcome)
    /\ RootNamed("Action", "fire") # ActionRootDefault

(* ---------------------------------------------------------------------- *)
(* The frame and the compile-time environment                              *)
(* ---------------------------------------------------------------------- *)
\* C28: the frame mirrors the environment of the compilation.  A compiled
\* node is evaluated on a frame that holds as many values as there were
\* variables in scope where it was compiled; every lexical slot its values
\* read is below the length of the frame; and when a Match or a Query node
\* returns, with whatever outcome and whether its patterns matched or not,
\* the frame has the length it had before the node.
C28_FrameMirrorsEnv ==
    /\ \A i \in TraceEvents("node") :
          /\ trace[i].frame = trace[i].scope
          /\ \A slot \in trace[i].reads : slot < trace[i].frame
    /\ \A i \in TraceEvents("left") : trace[i].after = trace[i].before

\* A Match node whose patterns bound a value before one of them failed has
\* returned, and a node compiled after it was evaluated.
C28_Witness ==
    \E i \in TraceEvents("left") :
        /\ trace[i].node = "Match"
        /\ trace[i].bound > trace[i].before
        /\ trace[i].out = Failure
        /\ \E j \in TraceEvents("match") : j < i /\ ~trace[j].ok
        /\ \E k \in TraceEvents("node") : k > i

(* ---------------------------------------------------------------------- *)
(* The cache as a list of lines in order of use                            *)
(* ---------------------------------------------------------------------- *)
KeyOf(cl) == Key(cl.index, cl.arguments, cl.is_active)
KeysIn(lru) == {KeyOf(lru[i]) : i \in 1..Len(lru)}

\* A get has just returned: nothing happened since.  It is so whenever no
\* get is being computed and one was made.
Completed == trace # <<>> /\ trace[Len(trace)].ev \in {"hit", "fill"}

\* The cache after any gets: one line per key, no more than LRU_LEN lines,
\* and the line of the get that completed last at the front.
CacheOrdered ==
    /\ Cardinality(KeysIn(cache)) = Len(cache)
    /\ Len(cache) <= LRU_LEN
    /\ (Pending = <<>> /\ trace # <<>>) => Completed
    /\ Completed =>
          /\ cache # <<>>
          /\ KeyOf(cache[1]) = Key(trace[Len(trace)].ref,
                                   trace[Len(trace)].args,
                                   trace[Len(trace)].is_active)
          /\ cache[1].outcome = trace[Len(trace)].out

\* The lines of a cache under other keys than the given one, in order.
Others(lru, key) == SelectSeq(lru, LAMBDA cl : KeyOf(cl) # key)
Stepping == Key(trace'[Len(trace')].ref, trace'[Len(trace')].args,
                trace'[Len(trace')].is_active)

\* A step of the cache: a hit leaves the number of lines as it is, and the
\* lines a step removes are the least recently used ones: the lines under
\* other keys than the one of the step that are left are those that were
\* there, in order, but for the last ones.
CacheStep ==
    /\ trace'[Len(trace')].ev = "hit" => Len(cache') = Len(cache)
    /\ Len(Others(cache', Stepping)) <= Len(Others(cache, Stepping))
    /\ Others(cache', Stepping) =
          SubSeq(Others(cache, Stepping), 1, Len(Others(cache', Stepping)))

\* C29: after any sequence of gets, nested and re-entrant ones included, the
\* cache holds at most one line per key (reference, arguments, is_active)
\* and at most LRU_LEN lines, and the key of the get that completed last is
\* at the most recently used position; a hit does not change the number of
\* lines, and only the least recently used lines are evicted.
C29_CacheLru == []CacheOrdered /\ [][CacheStep]_vars

\* A get on a full cache has pushed out the least recently used line, a
\* get with its key, nested in it, has found the tentative line, and it has
\* returned.
C29_Witness ==
    /\ script = 0
    /\ Len(cache) = LRU_LEN
    /\ KeyOf(OldLine(LRU_LEN)) \notin KeysIn(cache)
    /\ Len(trace) >= 3
    /\ trace[1].ev = "miss"
    /\ trace[2].ev = "hit"
    /\ trace[2].ref = trace[1].ref
    /\ trace[2].is_active = trace[1].is_active
    /\ trace[3].ev = "fill"
    /\ trace[3].out = Success
    /\ Pending = <<>>

(* ---------------------------------------------------------------------- *)
(* discover_all and discover                                               *)
(* ---------------------------------------------------------------------- *)
\* The name an action root is registered under.
ActionName(index) ==
    CHOOSE name \in DOMAIN ids.action_roots.indices :
        ids.action_roots.indices[name] = index

\* What discover(view, a, sink) appends to an empty sink for each action a
\* of the tree, in index order, from the i-th action on.
RECURSIVE DiscoveredFrom(_)
DiscoveredFrom(i) ==
    IF i > Len(IdSpaceActions(ids)) THEN <<>>
    ELSE BehaviorTreeDiscover(Tree, view, ActionName(IdSpaceActions(ids)[i]),
                              TRUE, <<>>).st.sink
         \o DiscoveredFrom(i + 1)

\* C30: discover_all appends the actions, in the same order, that discover
\* appends when it is called for each action of the tree in index order.
C30_DiscoverAll ==
    op.kind = "discover_all" =>
        SubSeq(sink, Len(before) + 1, Len(sink)) = DiscoveredFrom(1)

====
